---------------------------- MODULE Spec2Model ----------------------------
(***************************************************************************)
(* A model of the search core of Klausfish: the stoppable search thread    *)
(* (iterative deepening, negamax with a transposition table, quiescence),  *)
(* the transposition table and the time manager that starts and stops the  *)
(* search thread.                                                          *)
(*                                                                         *)
(* The chess rules library (python-chess) is outside the repository.  It   *)
(* is represented by a small finite game: seven positions, the moves       *)
(* between them, a static priority and a capture flag per move, and a      *)
(* result for the positions in which the game is over.  The position graph *)
(* has no cycle, so a position is never twice on one negamax stack.        *)
(***************************************************************************)
EXTENDS Integers, Sequences, FiniteSets, TLC

(***************************************************************************)
(* Bounds of the model.                                                    *)
(***************************************************************************)
\* iterative deepening is not started at a depth above DepthCap
DepthCap == 3
\* number of Search threads (perform_search calls) of one run
MaxSearches == 2
\* number of operations applied to a table in the table specification
MaxOps == 3
\* the go commands of a session of the UCI driver
MaxGo == 1
\* the legal moves of a position handed to prioritized
MaxMoves == 3
\* the squares of the board quiesce is run on
NumSquares == 3
\* the bestmove lines counted after a go command
MaxBestmoves == 2

(***************************************************************************)
(* Program constants.                                                      *)
(***************************************************************************)
\* float("inf") of alpha_beta_search; every score is smaller in magnitude
Inf == 1000000
\* utility of a won game (environment.utility)
WinValue == 100000
\* the value actions_with_assigned_values gives to unsearched moves
Sentinel == -100001
\* catalogue.MAX_GAVIOTA_PIECES
MAX_GAVIOTA_PIECES == 4
\* max_depth passed by Search.run
RunMaxDepth == 100000
\* node types, transpositions.py: PV_NODE, CUT_NODE, ALL_NODE = range(3)
PV_NODE == 0
CUT_NODE == 1
ALL_NODE == 2
\* game stages, environment.py: OPENING, MIDDLE_GAME, END_GAME = range(3)
OPENING == 0
MIDDLE_GAME == 1
END_GAME == 2

\* node_type=None of a new TranspositionTableEntry
NoNodeType == -1
\* milliseconds per second: "/ 1000" of allocate_time
MsPerSecond == 1000
\* the denominator of "available * 0.5" of allocate_time
HalfDenominator == 2
\* Clock.__init__: base_time=5*60*1000; TimeManager.__init__: moves_to_go=40
DefaultBaseTime == 300000
DefaultMovesToGo == 40
\* engine.search: seconds=60
DefaultSeconds == 60
\* info_from_uci: wtime=1, winc=0, binc=0, movestog=1
DefaultWtime == 1
DefaultMovestog == 1
\* info_from_uci: wtime = 10e7 when infinite
InfiniteWtime == 100000000

Max(a, b) == IF a >= b THEN a ELSE b
Min(a, b) == IF a <= b THEN a ELSE b

(***************************************************************************)
(* The game that stands for the chess library.                             *)
(***************************************************************************)
Positions == 0 .. 6
TerminalPositions == {5, 6}

\* chess.Move: origin, destination; priority is what moves.prioritize_move
\* computes for it (21 for a check, the capture value for a capture) and
\* capture what moves.is_move_takes computes (-1 when nothing is taken)
Mv(f, t, pr, cp) == [from |-> f, to |-> t, priority |-> pr, capture |-> cp]

\* None, where a move is expected
NoMove == Mv(-1, -1, -1, -1)

\* list(board.legal_moves), in generation order
LegalMoves(p) ==
    CASE p = 0 -> << Mv(0, 1, 0, -1), Mv(0, 2, 1, -1) >>
      [] p = 1 -> << Mv(1, 3, 21, -1), Mv(1, 4, 9, 9) >>
      [] p = 2 -> << Mv(2, 4, 9, 9) >>
      [] p = 3 -> << Mv(3, 5, 0, -1) >>
      [] p = 4 -> << Mv(4, 6, 0, -1) >>
      [] OTHER -> << >>

\* board.turn: TRUE for white
Turn(p) == p \in {0, 3, 4}

\* number of captures on the way from position 0
CapturesTo(p) == IF p \in {4, 6} THEN 1 ELSE 0

VARIABLES
    heur,         \* evaluation of the positions in which the game goes on (white's view)
    result,       \* board.result() of the positions in which the game is over
    rootPieces,   \* number of pieces on the board in position 0
    book,         \* the moves the opening book holds for a search's root
    tbOut,        \* what the tablebase answers: ok (or it raises) and win/draw/loss
    tables,       \* TranspositionTable objects: table id -> (key -> entry object id)
    heap,         \* TranspositionTableEntry objects that were ever stored
    pc,           \* per Search thread: where it is
    root,         \* per thread: Searcher.state, the position searched
    tp,           \* per thread: the id of its transposition table
    lookOpening,  \* per thread: look_up_opening
    lookEndGame,  \* per thread: look_up_end_game
    maxDepth,     \* per thread: max_depth of iterative_deepening
    stopEvent,    \* per thread: StoppableThread.__stop_event
    decision,     \* per thread: Searcher.decision
    decisionStack,\* per thread: Searcher.decision_stack
    score,        \* per thread: Searcher.score
    currentDepth, \* per thread: Search.__current_depth
    stack,        \* per thread: the negamax frames, innermost last
    abResult,     \* per thread: the value negamax returned to alpha_beta_search
    abMove,       \* per thread: the move alpha_beta_search returned
    moveStack,    \* per thread: state.move_stack, the moves pushed and not popped
    idDecision,   \* per thread: the local variable decision of iterative_deepening
    stopSeen,     \* per thread: a negamax call of the current depth saw the stop event set
    lastRet,      \* per thread: the last return of a negamax call
    lastStore,    \* per thread: the last entry negamax wrote to the table
    yields,       \* per thread: what iterative_deepening has yielded, in order
    visits,       \* per thread: negamax invocations, and their number when stop was set
    mgr,          \* the TimeManager: pc, decision, done, table, thread
    nSearches,    \* number of Search threads constructed
    tt9,          \* table specification: the table under test
    log9,         \* table specification: the operations applied to it
    engine,       \* engine.search: where the call is and what it returned
    uci,          \* uci.main: the driver loop, its board and its input
    call,         \* a call of a function of the library: its arguments and its result
    linear        \* a LinearEvaluation object: its features and weights

vars == << heur, result, rootPieces, book, tbOut, tables, heap, pc, root, tp,
           lookOpening, lookEndGame, maxDepth, stopEvent, decision,
           decisionStack, score, currentDepth, stack, abResult, abMove, moveStack,
           idDecision, stopSeen, lastRet, lastStore, yields, visits, mgr,
           nSearches, tt9, log9, engine, uci, call, linear >>

gameVars == << heur, result, rootPieces, book, tbOut >>
unitVars == << call, linear >>
tableVars9 == << tt9, log9 >>

Threads == 1 .. MaxSearches

(***************************************************************************)
(* Boards, FEN strings and keys.                                           *)
(***************************************************************************)
\* the chess.Board reached in position p after ply half moves
BoardAt(p, ply) ==
    [placement |-> p, turn |-> IF Turn(p) THEN "w" ELSE "b", castling |-> "-",
     ep |-> "-", halfmove |-> ply, fullmove |-> 1 + (ply \div 2)]

\* board.fen().split(" "): the six fields of the FEN string
FenFields(board) ==
    << board.placement, board.turn, board.castling, board.ep,
       board.halfmove, board.fullmove >>

\* transpositions.cut_fen: the first four fields
cut_fen(board) == SubSeq(FenFields(board), 1, 4)

\* the arguments __getitem__ and __setitem__ take as key: a chess.Board or
\* a key string (its four fields)
BoardKey(board) == [is_board |-> TRUE, board |-> board, fields |-> << >>]
StringKey(fields) == [is_board |-> FALSE, board |-> BoardAt(0, 0), fields |-> fields]

\* a key normalisation that keeps the move counters of the FEN
NormKey_AllFields(k) == IF k.is_board THEN FenFields(k.board) ELSE k.fields

\* cut_fen(key) if isinstance(key, chess.Board) else key
NormKey(k) == IF k.is_board THEN cut_fen(k.board) ELSE k.fields

\* dict.__setitem__
DictSet(table, kk, val) ==
    [x \in DOMAIN table \cup {kk} |-> IF x = kk THEN val ELSE table[x]]

\* TranspositionTable.__setitem__
TTSet(table, k, val) == DictSet(table, NormKey(k), val)

\* TranspositionTable.__getitem__: the value, or KeyError
TTGet(table, k, absent) ==
    IF NormKey(k) \in DOMAIN table
    THEN [found |-> TRUE, val |-> table[NormKey(k)]]
    ELSE [found |-> FALSE, val |-> absent]

\* len(table)
TTLen(table) == Cardinality(DOMAIN table)

\* len(state.piece_map())
Pieces(p) == rootPieces - CapturesTo(p)

\* a game that is never over
is_game_over_Never(p) == FALSE

\* state.is_game_over()
is_game_over(p) == p \in TerminalPositions

\* environment.utility
utility(p) ==
    IF result[p] = "1-0" THEN WinValue
    ELSE IF result[p] = "0-1" THEN -WinValue
    ELSE 0

\* LinearEvaluation.calculate: self.evaluation[state]
Evaluate(p) == IF is_game_over(p) THEN utility(p) ELSE heur[p]

\* factor = (1 if state.turn else -1)
Factor(p) == IF Turn(p) THEN 1 ELSE -1

\* environment.calculate_game_state
calculate_game_state(p, ply) ==
    IF BoardAt(p, ply).fullmove < 10 /\ Pieces(p) > 14 THEN OPENING
    ELSE IF Pieces(p) < 12 THEN END_GAME
    ELSE MIDDLE_GAME

(***************************************************************************)
(* list.sort(key, reverse=True): a stable sort, largest key first.         *)
(***************************************************************************)
RECURSIVE InsertDesc(_, _)
\* x goes behind every element of the sorted list s whose key is >= its own
InsertDesc(s, x) ==
    IF s = << >> THEN << x >>
    ELSE IF Head(s).k >= x.k
         THEN << Head(s) >> \o InsertDesc(Tail(s), x)
         ELSE << x >> \o s

RECURSIVE SortKeyed(_)
\* the list s of [k, x] pairs, sorted
SortKeyed(s) ==
    IF s = << >> THEN << >>
    ELSE InsertDesc(SortKeyed(SubSeq(s, 1, Len(s) - 1)), s[Len(s)])

Unkeyed(s) == [i \in 1 .. Len(s) |-> s[i].x]

\* moves.sort(key=lambda x: x.priority, reverse=True)
SortByPriority(list) ==
    Unkeyed(SortKeyed([i \in 1 .. Len(list) |-> [k |-> list[i].priority, x |-> list[i]]]))

\* moves.sort(key=lambda x: x.prio, reverse=True)
SortByCapture(list) ==
    Unkeyed(SortKeyed([i \in 1 .. Len(list) |-> [k |-> list[i].capture, x |-> list[i]]]))

\* actions.sort(key=lambda x: x.assigned_value, reverse=True)
SortByValue(list) ==
    Unkeyed(SortKeyed([i \in 1 .. Len(list) |-> [k |-> list[i].assigned_value, x |-> list[i]]]))

\* moves.prioritized
prioritized(p) == SortByPriority(LegalMoves(p))

\* moves.moves_for_rest_search: the capturing moves, best first
moves_for_rest_search(p) ==
    LET sorted == SortByCapture(LegalMoves(p))
        n == Cardinality({i \in 1 .. Len(sorted) : sorted[i].capture >= 0})
    IN  SubSeq(sorted, 1, n)

\* moves.best_move_for_rest_search
best_move_for_rest_search(p) ==
    IF moves_for_rest_search(p) # << >> THEN moves_for_rest_search(p)[1] ELSE NoMove

\* actions_with_assigned_values(moves.prioritized(state), value=-100001)
actions_with_assigned_values(list, value) ==
    [i \in 1 .. Len(list) |-> [move |-> list[i], assigned_value |-> value]]

RECURSIVE quiesce(_, _, _)
\* Search.quiesce
quiesce(p, alpha, beta) ==
    LET current_value == Evaluate(p) * Factor(p)
        alpha1 == IF alpha < current_value THEN current_value ELSE alpha
        best_capture == best_move_for_rest_search(p)
    IN  IF current_value > beta THEN beta
        ELSE IF best_capture = NoMove THEN alpha1
        ELSE LET new_score == -quiesce(best_capture.to, -beta, -alpha1)
             IN  IF new_score >= beta THEN beta
                 ELSE IF new_score > alpha1 THEN new_score
                 ELSE alpha1

(***************************************************************************)
(* Transposition table entries.  An entry object that was stored is held   *)
(* in heap under an object id; a table maps keys to object ids, so that a  *)
(* negamax call that fetched an entry and the table share the object.      *)
(***************************************************************************)
\* TranspositionTableEntry(): moves=None, depth=0, score=0, node_type=None
\* (moves_none: the moves attribute is None)
FreshEntry ==
    [moves |-> << >>, moves_none |-> TRUE, depth |-> 0, score |-> 0,
     node_type |-> NoNodeType]

\* TranspositionTableEntry.fill
fill(entry, sc, dp, mvs) ==
    [entry EXCEPT !.score = sc, !.moves = mvs, !.moves_none = FALSE, !.depth = dp]

\* TranspositionTableEntry.calc_node_type
calc_node_type(entry, alpha, beta) ==
    [entry EXCEPT !.node_type =
        IF entry.score >= beta THEN CUT_NODE
        ELSE IF entry.score <= alpha THEN ALL_NODE
        ELSE PV_NODE]

\* the table of thread t: self.transposition_table
TableOf(t) == tables[tp[t]]

\* the id of the entry object thread t creates for a key
NewObj(t, key) == [key |-> key, by |-> t]

\* no stored object: the entry of the call is a new one
NoRef == [key |-> << >>, by |-> 0]

\* nothing written, nothing returned yet
NoStore ==
    [key |-> << >>, entry |-> FreshEntry, path |-> "none",
     alpha_original |-> 0, alpha |-> 0, beta |-> 0]
NoRet ==
    [pos |-> -1, depth |-> 0, alpha |-> 0, beta |-> 0, alpha_probe |-> 0,
     beta_probe |-> 0, probe |-> [deep |-> FALSE, node_type |-> NoNodeType, score |-> 0],
     value |-> 0, path |-> "none"]

(***************************************************************************)
(* negamax, lines 359-399: from the call to the first child, or to the     *)
(* return when the call explores no child.                                 *)
(***************************************************************************)
\* lines 366-367: an ALL_NODE entry raises alpha
ProbeAlpha(alpha, deepEnough, e) ==
    IF deepEnough /\ e.node_type = ALL_NODE THEN Max(alpha, e.score) ELSE alpha

\* lines 368-369: a CUT_NODE entry lowers beta
ProbeBeta(beta, deepEnough, e) ==
    IF deepEnough /\ e.node_type = CUT_NODE THEN Min(beta, e.score) ELSE beta

\* catalogue.get_endgame_dtm of the position a move leads to
Dtm(q) == q

\* catalogue.endgame_lookup: the first legal move of greatest dtm
endgame_lookup(p) ==
    LET lm == LegalMoves(p)
        best == CHOOSE i \in 1 .. Len(lm) :
                  /\ \A j \in 1 .. Len(lm) : Dtm(lm[j].to) <= Dtm(lm[i].to)
                  /\ \A j \in 1 .. (i - 1) : Dtm(lm[j].to) < Dtm(lm[i].to)
    IN  lm[best]

\* the return record kept for the claims about returned values
\* (probe: what the probe of lines 362-369 found)
RetRec(p, depth, alpha, beta, alpha1, beta1, probe, value, path) ==
    [pos |-> p, depth |-> depth, alpha |-> alpha, beta |-> beta,
     alpha_probe |-> alpha1, beta_probe |-> beta1, probe |-> probe,
     value |-> value, path |-> path]

Descend(t, p, ply, depth, alpha, beta) ==
    LET key == cut_fen(BoardAt(p, ply))
        hit == key \in DOMAIN TableOf(t)
        ref == IF hit THEN TableOf(t)[key] ELSE NoRef
        stored_data == IF hit THEN heap[ref] ELSE FreshEntry
        deepEnough == hit /\ stored_data.depth >= depth
        alpha1 == ProbeAlpha(alpha, deepEnough, stored_data)
        beta1 == ProbeBeta(beta, deepEnough, stored_data)
        factor == Factor(p)
        probe == [deep |-> deepEnough, node_type |-> stored_data.node_type,
                  score |-> stored_data.score]
        Ret(v, path, seen) ==
            [kind |-> "return", value |-> v, seen |-> seen,
             tables |-> tables, heap |-> heap, stored |-> NoStore,
             rec |-> RetRec(p, depth, alpha, beta, alpha1, beta1, probe, v, path)]
    IN  IF deepEnough /\ (stored_data.node_type = PV_NODE \/ alpha >= beta)
           THEN Ret(stored_data.score, "cached", FALSE)
        ELSE IF stopEvent[t]
           THEN Ret(Evaluate(p) * factor, "stop", TRUE)
        ELSE IF is_game_over(p)
           THEN Ret(Evaluate(p) * factor, "terminal", FALSE)
        ELSE IF lookEndGame[t] /\ Pieces(p) <= MAX_GAVIOTA_PIECES
           THEN IF ~tbOut.ok
                THEN [kind |-> "raise"]
                ELSE \* end_game_lookup, lines 431-435
                     LET value == WinValue * tbOut.wdl * factor
                         move == endgame_lookup(p)
                         obj == IF hit THEN ref ELSE NewObj(t, key)
                         filled == fill(stored_data, value, Inf,
                                        << [move |-> move, assigned_value |-> Sentinel] >>)
                         heap1 == DictSet(heap, obj, filled)
                         tab1 == TTSet(TableOf(t), StringKey(key), obj)
                     IN  [kind |-> "return", value |-> value, seen |-> FALSE,
                          tables |-> [tables EXCEPT ![tp[t]] = tab1], heap |-> heap1,
                          stored |-> [key |-> key, entry |-> filled, path |-> "tablebase",
                                      alpha_original |-> alpha, alpha |-> value,
                                      beta |-> beta1],
                          rec |-> RetRec(p, depth, alpha, beta, alpha1, beta1,
                                         probe, value, "tablebase")]
        ELSE IF depth = 0
           THEN Ret(quiesce(p, alpha1, beta1), "quiesce", FALSE)
        ELSE [kind |-> "frame",
              frame |-> [pos |-> p, ply |-> ply, depth |-> depth,
                         alpha |-> alpha1, beta |-> beta1,
                         alpha_original |-> alpha, beta_in |-> beta,
                         alpha_probe |-> alpha1, probe |-> probe,
                         ref |-> ref,
                         actions |-> IF stored_data.moves_none
                                     THEN actions_with_assigned_values(prioritized(p), Sentinel)
                                     ELSE << >>,
                         idx |-> 1, cur |-> NoMove, broke |-> FALSE]]

\* the list a frame iterates: stored_data.moves when the entry has one
ActionsOf(fr) == IF fr.ref = NoRef THEN fr.actions ELSE heap[fr.ref].moves

(***************************************************************************)
(* negamax, lines 402-408: the value a child returned reaches the frame    *)
(* that called it.  stk is the stack with that frame on top, h the heap.   *)
(***************************************************************************)
SetValue(list, move, value) ==
    [i \in 1 .. Len(list) |->
        IF list[i].move = move THEN [list[i] EXCEPT !.assigned_value = value]
        ELSE list[i]]

\* the cutoff of line 405, had it kept the value found (fail-soft)
CutoffAlpha_Soft(fr, assigned) == assigned

\* line 405: alpha = beta
CutoffAlpha(fr, assigned) == fr.beta

Deliver(stk, h, v) ==
    IF stk = << >> THEN [stack |-> stk, heap |-> h]
    ELSE
    LET n == Len(stk)
        fr == stk[n]
        assigned == -v
        cut == assigned >= fr.beta
        fr1 == [fr EXCEPT
                  !.actions = IF fr.ref = NoRef THEN SetValue(@, fr.cur, assigned) ELSE @,
                  !.alpha = IF cut THEN CutoffAlpha(fr, assigned)
                            ELSE IF assigned > @ THEN assigned ELSE @,
                  !.broke = cut]
    IN  [stack |-> [stk EXCEPT ![n] = fr1],
         heap |-> IF fr.ref = NoRef THEN h
                  ELSE [h EXCEPT ![fr.ref].moves = SetValue(@, fr.cur, assigned)]]

\* the alpha classified against at line 413, had it been the widened one
\* a classification against the alpha the search has raised
ClassifyAlpha_Widened(fr) == fr.alpha

\* line 413: the alpha the stored score is classified against
ClassifyAlpha(fr) == fr.alpha_original

\* line 411: if not self.is_stopped()
MayStore(t) == ~stopEvent[t]

Alive(t) == pc[t] \notin {"new", "done", "crashed"}

\* what a thread's step leaves alone
BaseFrame(t) ==
    UNCHANGED << gameVars, unitVars, root, tp, lookOpening, lookEndGame, maxDepth,
                 mgr, nSearches, tableVars9, engine, uci >>

\* a step that yields
YieldFrame(t) == BaseFrame(t) /\ UNCHANGED visits

\* a step that invokes negamax or sets the stop event
VisitFrame(t) == BaseFrame(t) /\ UNCHANGED yields

\* any other step
ThreadFrame(t) == BaseFrame(t) /\ UNCHANGED << yields, visits >>

\* one more negamax invocation of thread t
Visit(t) == visits' = [visits EXCEPT ![t].calls = @ + 1]

\* the moment the stop event of thread t is set: the invocations so far and
\* the depth of the negamax recursion
MarkStop(t) ==
    visits' = [visits EXCEPT ![t] =
                 IF stopEvent[t] THEN @
                 ELSE [calls |-> @.calls, stop_calls |-> @.calls,
                       stop_depth |-> Len(stack[t])]]

\* line 401, state.push(action): the move goes on the move stack
PushMove(moves, move) == Append(moves, move)

\* a pop that leaves the move on the stack
PopMove_Kept(moves) == moves

\* line 403, state.pop(): the last move is taken off the move stack
PopMove(moves) == SubSeq(moves, 1, Len(moves) - 1)

\* the negamax call on top of thread t's stack calls negamax for its next move
Call(t) ==
    /\ pc[t] = "search"
    /\ LET n == Len(stack[t])
           fr == stack[t][n]
       IN  /\ ~fr.broke
           /\ fr.idx <= Len(ActionsOf(fr))
           /\ LET action == ActionsOf(fr)[fr.idx]
                  fr1 == [fr EXCEPT !.cur = action.move, !.idx = @ + 1]
                  stk1 == [stack[t] EXCEPT ![n] = fr1]
                  out == Descend(t, action.move.to, fr.ply + 1, fr.depth - 1,
                                 -fr.beta, -fr.alpha)
              IN  CASE out.kind = "frame" ->
                        /\ stack' = [stack EXCEPT ![t] = Append(stk1, out.frame)]
                        /\ moveStack' = [moveStack EXCEPT ![t] =
                                           PushMove(@, action.move)]
                        /\ UNCHANGED << pc, tables, heap, stopSeen, lastRet, lastStore >>
                    [] out.kind = "return" ->
                        LET d == Deliver(stk1, out.heap, out.value)
                        IN  /\ stack' = [stack EXCEPT ![t] = d.stack]
                            /\ moveStack' = [moveStack EXCEPT ![t] =
                                               PopMove(PushMove(@, action.move))]
                            /\ heap' = d.heap
                            /\ tables' = out.tables
                            /\ stopSeen' = [stopSeen EXCEPT ![t] = @ \/ out.seen]
                            /\ lastRet' = [lastRet EXCEPT ![t] = out.rec]
                            /\ lastStore' = IF out.stored = NoStore THEN lastStore
                                            ELSE [lastStore EXCEPT ![t] = out.stored]
                            /\ UNCHANGED pc
                    [] out.kind = "raise" ->
                        /\ pc' = [pc EXCEPT ![t] = "crashed"]
                        /\ moveStack' = [moveStack EXCEPT ![t] =
                                           PushMove(@, action.move)]
                        /\ UNCHANGED << stack, tables, heap, stopSeen, lastRet, lastStore >>
    /\ UNCHANGED << stopEvent, decision, decisionStack, score, currentDepth,
                    abResult, abMove, idDecision >>
    /\ Visit(t)
    /\ VisitFrame(t)

\* lines 409-415: the call on top of the stack sorts, stores and returns
Finish(t) ==
    /\ pc[t] = "search"
    /\ LET n == Len(stack[t])
           fr == stack[t][n]
           key == cut_fen(BoardAt(fr.pos, fr.ply))
           sorted == SortByValue(ActionsOf(fr))
           heap1 == IF fr.ref = NoRef THEN heap
                    ELSE [heap EXCEPT ![fr.ref].moves = sorted]
           obj == IF fr.ref = NoRef THEN NewObj(t, key) ELSE fr.ref
           entry0 == IF fr.ref = NoRef THEN FreshEntry ELSE heap1[fr.ref]
           entry1 == calc_node_type(fill(entry0, fr.alpha, fr.depth, sorted),
                                    ClassifyAlpha(fr), fr.beta)
           store == MayStore(t)
           heap2 == IF store THEN DictSet(heap1, obj, entry1) ELSE heap1
           tab2 == IF store THEN TTSet(TableOf(t), StringKey(key), obj)
                   ELSE TableOf(t)
           d == Deliver(SubSeq(stack[t], 1, n - 1), heap2, fr.alpha)
       IN  /\ fr.broke \/ fr.idx > Len(ActionsOf(fr))
           /\ stack' = [stack EXCEPT ![t] = d.stack]
           /\ heap' = d.heap
           /\ tables' = [tables EXCEPT ![tp[t]] = tab2]
           /\ stopSeen' = [stopSeen EXCEPT ![t] = @ \/ stopEvent[t]]
           /\ lastRet' = [lastRet EXCEPT ![t] =
                            RetRec(fr.pos, fr.depth, fr.alpha_original, fr.beta_in,
                                   fr.alpha_probe, fr.beta, fr.probe, fr.alpha, "explore")]
           /\ lastStore' = IF store
                           THEN [lastStore EXCEPT ![t] =
                                   [key |-> key, entry |-> entry1, path |-> "explore",
                                    alpha_original |-> fr.alpha_original,
                                    alpha |-> fr.alpha, beta |-> fr.beta]]
                           ELSE lastStore
           /\ IF n = 1
              THEN /\ pc' = [pc EXCEPT ![t] = "ab_ret"]
                   /\ abResult' = [abResult EXCEPT ![t] = fr.alpha]
                   /\ UNCHANGED moveStack
              ELSE /\ moveStack' = [moveStack EXCEPT ![t] = PopMove(@)]
                   /\ UNCHANGED << pc, abResult >>
    /\ UNCHANGED << stopEvent, decision, decisionStack, score, currentDepth,
                    abMove, idDecision >>
    /\ ThreadFrame(t)

(***************************************************************************)
(* Search.run and Search.iterative_deepening.                              *)
(***************************************************************************)
\* line 326 without its test: the move is yielded whatever the stop event
MayYield_Always(t) == TRUE

\* line 326: if not self.is_stopped()
MayYield(t) == ~stopEvent[t]

\* a yield of iterative_deepening: the move, at the depth and score of then
Yielded(t, move) ==
    yields' = [yields EXCEPT ![t] =
                 Append(@, [move |-> move, depth |-> currentDepth[t], score |-> score[t]])]

\* Searcher.decision setter: appends to decision_stack, sets decision
SetDecision(t, move) ==
    /\ decisionStack' = [decisionStack EXCEPT ![t] = Append(@, move)]
    /\ decision' = [decision EXCEPT ![t] = move]

\* Search.run, lines 292-293
RunStep(t) ==
    /\ pc[t] = "run"
    /\ pc' = [pc EXCEPT ![t] = IF is_game_over(root[t]) THEN "done" ELSE "id"]
    /\ UNCHANGED << tables, heap, stopEvent, decision, decisionStack, score,
                    currentDepth, stack, abResult, abMove, moveStack, idDecision, stopSeen,
                    lastRet, lastStore >>
    /\ ThreadFrame(t)

\* an opening_lookup that finds nothing, whatever the book holds
opening_lookup_None(p) == {}

\* catalogue.opening_lookup: the moves it may return (random.randint picks
\* one of the book's moves for the position); empty when it returns None
opening_lookup(p) == {m \in book : m.from = p}

\* iterative_deepening, lines 314-322
IdStep(t) ==
    /\ pc[t] = "id"
    /\ \/ \* the opening book holds a move: stop, yield it
          /\ lookOpening[t]
          /\ calculate_game_state(root[t], 0) = OPENING
          /\ \E m \in opening_lookup(root[t]) :
                idDecision' = [idDecision EXCEPT ![t] = m]
          /\ stopEvent' = [stopEvent EXCEPT ![t] = TRUE]
          /\ MarkStop(t)
          /\ pc' = [pc EXCEPT ![t] = "yield_book"]
          /\ UNCHANGED currentDepth
       \/ /\ ~ ( /\ lookOpening[t]
                 /\ calculate_game_state(root[t], 0) = OPENING
                 /\ opening_lookup(root[t]) # {} )
          /\ currentDepth' = [currentDepth EXCEPT ![t] = 0]
          /\ idDecision' = [idDecision EXCEPT ![t] = LegalMoves(root[t])[1]]
          /\ pc' = [pc EXCEPT ![t] = "loop"]
          /\ UNCHANGED << stopEvent, visits >>
    /\ UNCHANGED << tables, heap, decision, decisionStack, score, stack,
                    abResult, abMove, moveStack, stopSeen, lastRet, lastStore >>
    /\ VisitFrame(t)

\* run, line 295, for the move of the opening book; the generator returns
YieldBook(t) ==
    /\ pc[t] = "yield_book"
    /\ Yielded(t, idDecision[t])
    /\ SetDecision(t, idDecision[t])
    /\ pc' = [pc EXCEPT ![t] = "done"]
    /\ UNCHANGED << tables, heap, stopEvent, score, currentDepth, stack,
                    abResult, abMove, moveStack, idDecision, stopSeen, lastRet, lastStore >>
    /\ YieldFrame(t)

\* lines 324-325 and 346: the next depth; negamax is called on the root
LoopStep(t) ==
    /\ pc[t] = "loop"
    /\ currentDepth[t] < DepthCap
    /\ currentDepth' = [currentDepth EXCEPT ![t] = @ + 1]
    /\ LET out == Descend(t, root[t], 0, currentDepth[t] + 1, -Inf, Inf)
       IN  CASE out.kind = "frame" ->
                 /\ stack' = [stack EXCEPT ![t] = << out.frame >>]
                 /\ pc' = [pc EXCEPT ![t] = "search"]
                 /\ stopSeen' = [stopSeen EXCEPT ![t] = FALSE]
                 /\ UNCHANGED << tables, heap, abResult, lastRet, lastStore >>
             [] out.kind = "return" ->
                 /\ abResult' = [abResult EXCEPT ![t] = out.value]
                 /\ pc' = [pc EXCEPT ![t] = "ab_ret"]
                 /\ heap' = out.heap
                 /\ tables' = out.tables
                 /\ stopSeen' = [stopSeen EXCEPT ![t] = out.seen]
                 /\ lastRet' = [lastRet EXCEPT ![t] = out.rec]
                 /\ lastStore' = IF out.stored = NoStore THEN lastStore
                                 ELSE [lastStore EXCEPT ![t] = out.stored]
                 /\ UNCHANGED stack
             [] out.kind = "raise" ->
                 /\ pc' = [pc EXCEPT ![t] = "crashed"]
                 /\ UNCHANGED << stack, tables, heap, abResult, stopSeen,
                                 lastRet, lastStore >>
    /\ UNCHANGED << stopEvent, decision, decisionStack, score, abMove, moveStack, idDecision >>
    /\ Visit(t)
    /\ VisitFrame(t)

\* line 347 and the assignment of line 325; a KeyError ends the thread
AbReturn(t) ==
    /\ pc[t] = "ab_ret"
    /\ LET key == cut_fen(BoardAt(root[t], 0))
       IN  IF key \in DOMAIN TableOf(t)
           THEN /\ abMove' = [abMove EXCEPT ![t] = heap[TableOf(t)[key]].moves[1].move]
                /\ score' = [score EXCEPT ![t] = abResult[t]]
                /\ pc' = [pc EXCEPT ![t] = "chk326"]
           ELSE /\ pc' = [pc EXCEPT ![t] = "crashed"]
                /\ UNCHANGED << abMove, score >>
    /\ UNCHANGED << tables, heap, stopEvent, decision, decisionStack,
                    currentDepth, stack, abResult, moveStack, idDecision,
                    stopSeen, lastRet, lastStore >>
    /\ ThreadFrame(t)

\* lines 326-327
Check326(t) ==
    /\ pc[t] = "chk326"
    /\ IF MayYield(t)
       THEN /\ idDecision' = [idDecision EXCEPT ![t] = abMove[t]]
            /\ pc' = [pc EXCEPT ![t] = "yield"]
       ELSE /\ pc' = [pc EXCEPT ![t] = "chk332"]
            /\ UNCHANGED idDecision
    /\ UNCHANGED << tables, heap, stopEvent, decision, decisionStack, score,
                    currentDepth, stack, abResult, abMove, moveStack, stopSeen,
                    lastRet, lastStore >>
    /\ ThreadFrame(t)

\* line 331 and run, line 295
Yield(t) ==
    /\ pc[t] = "yield"
    /\ Yielded(t, idDecision[t])
    /\ SetDecision(t, idDecision[t])
    /\ pc' = [pc EXCEPT ![t] = "chk332"]
    /\ UNCHANGED << tables, heap, stopEvent, score, currentDepth, stack,
                    abResult, abMove, moveStack, idDecision, stopSeen, lastRet, lastStore >>
    /\ YieldFrame(t)

\* lines 332-335
Check332(t) ==
    /\ pc[t] = "chk332"
    /\ pc' = [pc EXCEPT ![t] =
                IF stopEvent[t] \/ currentDepth[t] > maxDepth[t] THEN "done"
                ELSE IF score[t] \in {WinValue, -WinValue} THEN "done"
                ELSE "loop"]
    /\ UNCHANGED << tables, heap, stopEvent, decision, decisionStack, score,
                    currentDepth, stack, abResult, abMove, moveStack, idDecision, stopSeen,
                    lastRet, lastStore >>
    /\ ThreadFrame(t)

\* one step of Search thread t
ThreadStep(t) ==
    \/ RunStep(t)
    \/ IdStep(t)
    \/ YieldBook(t)
    \/ LoopStep(t)
    \/ Call(t)
    \/ Finish(t)
    \/ AbReturn(t)
    \/ Check326(t)
    \/ Yield(t)
    \/ Check332(t)

\* threading.Thread.start
Start(t) ==
    /\ pc[t] = "new"
    /\ pc' = [pc EXCEPT ![t] = "run"]

\* StoppableThread.stop
Stop(t) ==
    /\ stopEvent' = [stopEvent EXCEPT ![t] = TRUE]
    /\ MarkStop(t)

(***************************************************************************)
(* One Search thread, started and stopped by its caller.                   *)
(***************************************************************************)
TableIds == {"default", "manager", "own"}
Results == {"1-0", "1/2-1/2", "0-1"}
\* board.result() of a finished game: the side to move is mated, or a draw
ResultsAt(p) == IF Turn(p) THEN {"0-1", "1/2-1/2"} ELSE {"1-0", "1/2-1/2"}
FinalResults ==
    {r \in [TerminalPositions -> Results] : \A p \in TerminalPositions : r[p] \in ResultsAt(p)}
\* Times are kept exactly: a time in seconds as a number of 1/Scale s, the
\* clock's base_time (milliseconds) as a number of 1/Scale ms, so that the
\* half of line 173 and the seconds that spent_time takes off the
\* milliseconds are whole numbers.  Increments are whole milliseconds.
Scale == HalfDenominator * MsPerSecond

\* Clock(base_time, unconditional_increment, conditional_increment)
Clock(base_ms, uinc, cinc) ==
    [base_time |-> Scale * base_ms, unconditional_increment |-> uinc,
     conditional_increment |-> cinc]

\* TimeManager.__init__ with the default clock
IdleManager ==
    [pc |-> "idle", decision |-> NoMove, done |-> FALSE, table |-> "manager",
     thread |-> 0, harvestedAlive |-> FALSE,
     time_control |-> Clock(DefaultBaseTime, 0, 0),
     moves_to_go |-> DefaultMovesToGo, allocated |-> 0]

\* an allocation without the half of the available time
allocate_time_NoHalf(m) ==
    Scale * (m.time_control.base_time \div (Scale * MsPerSecond * m.moves_to_go))
      + HalfDenominator * (m.time_control.unconditional_increment
                             + m.time_control.conditional_increment)

\* TimeManager.allocate_time, in 1/Scale s: np.min of
\* floor(available / moves_to_go) + the increments / 1000 and available * 0.5
allocate_time(m) ==
    LET tc == m.time_control
        floored == tc.base_time \div (Scale * MsPerSecond * m.moves_to_go)
        first == Scale * floored
                   + HalfDenominator * (tc.unconditional_increment
                                          + tc.conditional_increment)
    IN  IF Scale * first <= tc.base_time THEN first
        ELSE tc.base_time \div Scale

\* the half of the available time is a whole number of 1/Scale s, or is
\* not the minimum
Representable(m) ==
    \/ m.time_control.base_time % Scale = 0
    \/ allocate_time(m) # m.time_control.base_time \div Scale

\* TimeManager.spent_time: base_time -= amount, the amount taken as it is
spent_time(m, amount) ==
    [m EXCEPT !.time_control.base_time = @ - amount]

\* the evaluation of the positions when it is not what varies
PlainHeur == [p \in Positions \ TerminalPositions |-> IF p = 1 THEN 1 ELSE 0]

\* no negamax invocation yet, the stop event never set
NoVisits == [calls |-> 0, stop_calls |-> -1, stop_depth |-> -1]

\* engine.search is not being called; uci.main is not running
EngineIdle ==
    [pc |-> "idle", board |-> 0, move |-> NoMove, none |-> TRUE, pushed |-> 0,
     started |-> FALSE]
UciIdle ==
    [pc |-> "off", board |-> 0, go |-> << >>, printed |-> NoMove,
     out |-> "", asked |-> 0, bestmoves |-> 0]
\* no function is being called; no LinearEvaluation has been constructed
NoCall == [fn |-> "none", done |-> FALSE]
NoLinear ==
    [features |-> << >>, weights |-> << >>, registered |-> << >>, ops |-> 0]
UnitIdle == call = NoCall /\ linear = NoLinear
OthersIdle == engine = EngineIdle /\ uci = UciIdle /\ UnitIdle

\* the fields every thread object has before it is configured
ThreadFieldsInit ==
    /\ stopEvent = [t \in Threads |-> FALSE]
    /\ decision = [t \in Threads |-> NoMove]
    /\ decisionStack = [t \in Threads |-> << >>]
    /\ score = [t \in Threads |-> 0]
    /\ currentDepth = [t \in Threads |-> 0]
    /\ stack = [t \in Threads |-> << >>]
    /\ abResult = [t \in Threads |-> 0]
    /\ abMove = [t \in Threads |-> NoMove]
    /\ moveStack = [t \in Threads |-> << >>]
    /\ idDecision = [t \in Threads |-> NoMove]
    /\ stopSeen = [t \in Threads |-> FALSE]
    /\ lastRet = [t \in Threads |-> NoRet]
    /\ lastStore = [t \in Threads |-> NoStore]
    /\ yields = [t \in Threads |-> << >>]
    /\ visits = [t \in Threads |-> NoVisits]
    /\ tables = [i \in TableIds |-> << >>]
    /\ heap = << >>

\* threads not started; Search.run will pass max_depth=100000
ThreadsInit ==
    /\ ThreadFieldsInit
    /\ pc = [t \in Threads |-> "new"]
    /\ maxDepth = [t \in Threads |-> RunMaxDepth]

TableIdle9 ==
    /\ tt9 = << >>
    /\ log9 = << >>

\* Search(state=board, transposition_table=TranspositionTable()), then the
\* caller sets the look-up flags
Init ==
    /\ ThreadsInit
    /\ TableIdle9
    /\ OthersIdle
    /\ mgr = IdleManager
    /\ nSearches = 1
    /\ tp = [t \in Threads |-> "own"]
    /\ \/ \* no look-up: the evaluation and the results vary
          /\ heur \in [Positions \ TerminalPositions -> {0, 1}]
          /\ heur[0] = 0
          /\ result \in FinalResults
          /\ rootPieces = 16
          /\ book = {}
          /\ tbOut = [ok |-> TRUE, wdl |-> 0]
          /\ root = [t \in Threads |-> 0]
          /\ lookOpening = [t \in Threads |-> FALSE]
          /\ lookEndGame = [t \in Threads |-> FALSE]
       \/ \* opening look-up: the book varies
          /\ heur = PlainHeur
          /\ result = [p \in TerminalPositions |-> "1/2-1/2"]
          /\ rootPieces = 16
          /\ book \in {{}, {LegalMoves(0)[1], LegalMoves(0)[2]}}
          /\ tbOut = [ok |-> TRUE, wdl |-> 0]
          /\ root = [t \in Threads |-> 0]
          /\ lookOpening = [t \in Threads |-> TRUE]
          /\ lookEndGame = [t \in Threads |-> FALSE]
       \/ \* end game look-up: the answer of the tablebase varies
          /\ heur = PlainHeur
          /\ result = [p \in TerminalPositions |-> "1/2-1/2"]
          /\ rootPieces = 5
          /\ book = {}
          /\ tbOut \in [ok : BOOLEAN, wdl : {-1, 0, 1}]
          /\ root = [t \in Threads |-> 0]
          /\ lookOpening = [t \in Threads |-> FALSE]
          /\ lookEndGame = [t \in Threads |-> TRUE]
       \/ \* the game is over in the position searched
          /\ heur = PlainHeur
          /\ result \in FinalResults
          /\ rootPieces = 16
          /\ book = {}
          /\ tbOut = [ok |-> TRUE, wdl |-> 0]
          /\ root = [t \in Threads |-> 5]
          /\ lookOpening = [t \in Threads |-> FALSE]
          /\ lookEndGame = [t \in Threads |-> FALSE]

\* the caller starts the thread
CallerStart ==
    /\ Start(1)
    /\ UNCHANGED << tables, heap, stopEvent, decision, decisionStack, score,
                    currentDepth, stack, abResult, abMove, moveStack, idDecision, stopSeen,
                    lastRet, lastStore >>
    /\ ThreadFrame(1)

\* the caller stops the thread, at any moment of its run
CallerStop ==
    /\ Alive(1)
    /\ ~stopEvent[1]
    /\ Stop(1)
    /\ UNCHANGED << tables, heap, pc, decision, decisionStack, score,
                    currentDepth, stack, abResult, abMove, moveStack, idDecision, stopSeen,
                    lastRet, lastStore >>
    /\ VisitFrame(1)

Next ==
    \/ CallerStart
    \/ CallerStop
    \/ ThreadStep(1)

Spec == Init /\ [][Next]_vars

(***************************************************************************)
(* The depth-limited minimax value of a position for the side to move:     *)
(* negamax without table, window or stop.                                  *)
(***************************************************************************)
RECURSIVE TrueValue(_, _)
TrueValue(p, depth) ==
    IF is_game_over(p) THEN Evaluate(p) * Factor(p)
    ELSE IF depth = 0 THEN quiesce(p, -Inf, Inf)
    ELSE LET lm == LegalMoves(p)
             vals == {-TrueValue(lm[i].to, depth - 1) : i \in 1 .. Len(lm)}
         IN  CHOOSE v \in vals : \A w \in vals : w <= v

\* the entry stored under a key of a table
EntryAt(tab, key) == heap[tables[tab][key]]

\* an entry's score is what its node type says of the true value
SoundEntry(key, e) ==
    LET v == TrueValue(key[1], e.depth)
    IN  /\ e.node_type = PV_NODE => e.score = v
        /\ e.node_type = CUT_NODE => v >= e.score
        /\ e.node_type = ALL_NODE => v <= e.score

(***************************************************************************)
(* The claims about the search thread (specification Spec).                *)
(***************************************************************************)
\* C1: a move is assigned to searcher.decision for a depth only when the
\* whole alpha_beta_search of that depth has finished and no negamax call
\* of it saw the stop event set; the move is the one that search returned.
C1_CommitOnlyUnstopped ==
    [][\A t \in Threads :
         (decisionStack'[t] # decisionStack[t] /\ pc[t] # "yield_book") =>
            /\ ~stopSeen[t]
            /\ stack[t] = << >>
            /\ decision'[t] = abMove[t]
            /\ Len(decisionStack'[t]) = currentDepth[t]]_vars

\* a search of depth two or more was stopped and its result dropped, after
\* the results of the depths before it were assigned
C1_Witness ==
    /\ pc[1] = "done"
    /\ stopSeen[1]
    /\ currentDepth[1] >= 2
    /\ Len(decisionStack[1]) = currentDepth[1] - 1
    /\ decision[1] # abMove[1]

\* C2: a searcher stopped before its depth-1 search completes (the game is
\* not over at the root, no move comes from the opening book) still ends
\* with a decision that is a legal move of the root.
C2_DecisionNeverNull ==
    \A t \in Threads :
        ( /\ pc[t] \in {"done", "crashed"}
          /\ ~is_game_over(root[t])
          /\ ~lookEndGame[t]
          /\ ~lookOpening[t] \/ book = {} ) =>
            \E i \in 1 .. Len(LegalMoves(root[t])) :
                decision[t] = LegalMoves(root[t])[i]

\* what the claims compare of a table: per key the score, the depth, the
\* node type and the order of the moves
TableView(tab) ==
    [key \in DOMAIN tables[tab] |->
        LET e == EntryAt(tab, key)
        IN  [score |-> e.score, depth |-> e.depth, node_type |-> e.node_type,
             order |-> [i \in 1 .. Len(e.moves) |-> e.moves[i].move]]]

\* C4: once a negamax call has seen the stop event set, the table is not
\* modified for the rest of the search: no key is added, no entry changes
\* in score, depth, node type or order of its moves.
C4_NoChangeAfterStopSeen ==
    [][\A t \in Threads : stopSeen[t] => TableView(tp[t])' = TableView(tp[t])]_vars

\* the claim's reading of a probed entry that is deep enough
ProbeAsClaimed(alpha_in, beta_in, alpha_out, beta_out, probe) ==
    /\ (probe.deep /\ probe.node_type = CUT_NODE) =>
            (alpha_out = Max(alpha_in, probe.score) /\ beta_out = beta_in)
    /\ (probe.deep /\ probe.node_type = ALL_NODE) =>
            (beta_out = Min(beta_in, probe.score) /\ alpha_out = alpha_in)

\* C6: in the probe, an entry deep enough that causes no immediate return
\* raises alpha to max(alpha, score) when it is a LOWER_BOUND (CUT_NODE)
\* and lowers beta to min(beta, score) when it is an UPPER_BOUND (ALL_NODE),
\* leaving the other bound alone.
C6_ProbeUsesBounds ==
    \A t \in Threads :
        /\ \A i \in 1 .. Len(stack[t]) :
              LET fr == stack[t][i]
              IN  ProbeAsClaimed(fr.alpha_original, fr.beta_in,
                                 fr.alpha_probe, fr.beta, fr.probe)
        /\ lastRet[t].path \in {"quiesce", "explore"} =>
              ProbeAsClaimed(lastRet[t].alpha, lastRet[t].beta,
                             lastRet[t].alpha_probe, lastRet[t].beta_probe,
                             lastRet[t].probe)

\* C7: after unstopped negamax calls every entry of the table is sound: an
\* EXACT score is the minimax value at the stored depth, a LOWER_BOUND score
\* is not above it, an UPPER_BOUND score is not below it.
C7_TableSound ==
    (~lookEndGame[1] /\ ~stopEvent[1]) =>
        \A key \in DOMAIN tables["own"] : SoundEntry(key, EntryAt("own", key))

\* the class the claim gives a score
ClassAsClaimed(sc, alpha, beta) ==
    IF sc >= beta THEN CUT_NODE ELSE IF sc <= alpha THEN ALL_NODE ELSE PV_NODE

\* C8: calc_node_type gives every (score, alpha, beta) one type, LOWER_BOUND
\* (CUT_NODE) when score >= beta, otherwise UPPER_BOUND (ALL_NODE) when
\* score <= alpha, otherwise EXACT (PV_NODE); negamax classifies the score
\* it stores against the alpha it was called with.
C8_Classification ==
    /\ \A t \in Threads :
          lastStore[t].path = "explore" =>
            /\ lastStore[t].entry.score = lastStore[t].alpha
            /\ lastStore[t].entry.node_type =
                  ClassAsClaimed(lastStore[t].entry.score,
                                 lastStore[t].alpha_original, lastStore[t].beta)
    /\ \A sc \in -1 .. 1 : \A a \in -1 .. 1 : \A b \in -1 .. 1 :
          calc_node_type([FreshEntry EXCEPT !.score = sc], a, b).node_type
            = ClassAsClaimed(sc, a, b)

\* an EXACT entry was stored whose score is the widened alpha, above the
\* alpha of the call, while the table holds entries of all three types
C8_Witness ==
    /\ lastStore[1].path = "explore"
    /\ lastStore[1].entry.node_type = PV_NODE
    /\ lastStore[1].alpha > lastStore[1].alpha_original
    /\ \A ty \in {PV_NODE, CUT_NODE, ALL_NODE} :
          \E key \in DOMAIN tables["own"] : EntryAt("own", key).node_type = ty

\* C10 as stated: every value negamax returns, called with alpha < beta,
\* lies in [alpha, beta], on every return path.
C10_AllReturnsInWindow ==
    \A t \in Threads :
        (lastRet[t].path # "none" /\ lastRet[t].alpha < lastRet[t].beta) =>
            (lastRet[t].alpha <= lastRet[t].value /\ lastRet[t].value <= lastRet[t].beta)

\* C10 amended: on the quiescence and child-exploration paths the value
\* lies between the two bounds as the probe left them, hence in
\* [alpha, beta] whenever the probe left alpha <= beta.
C10_SearchedReturnsInWindow ==
    \A t \in Threads :
        LET r == lastRet[t]
        IN  (r.path \in {"quiesce", "explore"} /\ r.alpha < r.beta) =>
              /\ r.alpha <= r.alpha_probe /\ r.beta_probe <= r.beta
              /\ Min(r.alpha_probe, r.beta_probe) <= r.value
              /\ r.value <= Max(r.alpha_probe, r.beta_probe)
              /\ r.alpha_probe <= r.beta_probe =>
                    (r.alpha <= r.value /\ r.value <= r.beta)

\* a child exploration ended by a cutoff returned exactly its finite beta
C10_Witness ==
    /\ lastRet[1].path = "explore"
    /\ lastRet[1].beta < Inf
    /\ lastRet[1].alpha < lastRet[1].beta
    /\ lastRet[1].value = lastRet[1].beta

(***************************************************************************)
(* The TimeManager: perform_search and run_searcher_for.  The caller of    *)
(* perform_search runs on the manager's thread; each call constructs a new *)
(* Search thread on the manager's table.                                   *)
(***************************************************************************)
\* what a step of the manager leaves alone in the threads
CallerFrame ==
    UNCHANGED << gameVars, unitVars, tables, heap, decision, decisionStack, score,
                 currentDepth, stack, abResult, abMove, moveStack, idDecision, stopSeen,
                 lastRet, lastStore, maxDepth, tableVars9, yields, engine, uci >>

\* Searcher.__init__ and the setters of the look-up flags
Construct(t, board, table, lo, le) ==
    /\ nSearches' = t
    /\ root' = [root EXCEPT ![t] = board]
    /\ tp' = [tp EXCEPT ![t] = table]
    /\ lookOpening' = [lookOpening EXCEPT ![t] = lo]
    /\ lookEndGame' = [lookEndGame EXCEPT ![t] = le]

\* perform_search, line 185, and run_searcher_for, lines 205-210
PerformSearch(board) ==
    /\ mgr.pc = "idle"
    /\ nSearches < MaxSearches
    /\ Representable(mgr)
    /\ Construct(nSearches + 1, board, mgr.table, TRUE, FALSE)
    /\ mgr' = [spent_time(mgr, allocate_time(mgr)) EXCEPT
                 !.pc = "start", !.done = FALSE, !.thread = nSearches + 1,
                 !.allocated = allocate_time(mgr)]
    /\ UNCHANGED << pc, stopEvent, visits >>
    /\ CallerFrame

\* scheduler.run: the event of delay 0, thread.start
SchedulerStart ==
    /\ mgr.pc = "start"
    /\ Start(mgr.thread)
    /\ mgr' = [mgr EXCEPT !.pc = "wait"]
    /\ UNCHANGED << stopEvent, visits, root, tp, lookOpening, lookEndGame, nSearches >>
    /\ CallerFrame

\* scheduler.run: the event of delay seconds, thread.stop
SchedulerStop ==
    /\ mgr.pc = "wait"
    /\ Stop(mgr.thread)
    /\ mgr' = [mgr EXCEPT !.pc = "harvest"]
    /\ UNCHANGED << pc, root, tp, lookOpening, lookEndGame, nSearches >>
    /\ CallerFrame

\* run_searcher_for, lines 212-213, and perform_search, line 191
Harvest ==
    /\ mgr.pc = "harvest"
    /\ mgr' = [mgr EXCEPT !.pc = "idle",
                          !.decision = decision[mgr.thread],
                          !.table = tp[mgr.thread],
                          !.done = TRUE,
                          !.harvestedAlive = Alive(mgr.thread)]
    /\ UNCHANGED << pc, stopEvent, visits, root, tp, lookOpening, lookEndGame,
                    nSearches >>
    /\ CallerFrame

\* the boards searched under the manager
ManagerBoards == {3}

\* TimeManager(time_control=Clock(...), moves_to_go=...): the clocks and
\* moves to go of the managers
ClockConfigs ==
    { [tc |-> Clock(10000, 0, 0), mtg |-> 10],
      [tc |-> Clock(3000, 0, 0), mtg |-> 2],
      [tc |-> Clock(4000, 0, 0), mtg |-> 1],
      [tc |-> Clock(30000, 500, 250), mtg |-> DefaultMovesToGo],
      [tc |-> Clock(0, 500, 0), mtg |-> 1] }

InitTM ==
    /\ ThreadsInit
    /\ TableIdle9
    /\ OthersIdle
    /\ \E c \in ClockConfigs :
          mgr = [IdleManager EXCEPT !.time_control = c.tc, !.moves_to_go = c.mtg]
    /\ nSearches = 0
    /\ tp = [t \in Threads |-> "default"]
    /\ root = [t \in Threads |-> 3]
    /\ lookOpening = [t \in Threads |-> TRUE]
    /\ lookEndGame = [t \in Threads |-> FALSE]
    /\ heur = PlainHeur
    /\ result \in FinalResults
    /\ result[6] = "1/2-1/2"
    /\ rootPieces = 16
    /\ book \in {{}, {LegalMoves(3)[1]}}
    /\ tbOut = [ok |-> TRUE, wdl |-> 0]

NextTM ==
    \/ \E b \in ManagerBoards : PerformSearch(b)
    \/ SchedulerStart
    \/ SchedulerStop
    \/ Harvest
    \/ \E t \in Threads : ThreadStep(t)

SpecTM == InitTM /\ [][NextTM]_vars

(***************************************************************************)
(* The claims about the time manager (specification SpecTM).               *)
(***************************************************************************)
\* C3: perform_search reads searcher.decision and the searcher's table and
\* sets done only after the searcher thread has terminated.
C3_HarvestAfterTermination == ~mgr.harvestedAlive

\* the started threads that run on a table
LiveOn(tab) == {t \in Threads : Alive(t) /\ tp[t] = tab}

\* C5: at any time at most one live search thread operates on a given
\* transposition table object.
C5_OneThreadPerTable == \A tab \in TableIds : Cardinality(LiveOn(tab)) <= 1

(***************************************************************************)
(* The transposition table on its own (specification SpecTT): puts and     *)
(* gets with boards and with key strings, the results kept in a log.       *)
(***************************************************************************)
\* boards of two positions, each with two settings of the move counters
Boards9 == {BoardAt(p, ply) : p \in {0, 1}, ply \in {0, 2}}
Keys9 == {BoardKey(b) : b \in Boards9} \cup {StringKey(cut_fen(b)) : b \in Boards9}
\* a deep entry and a shallow one
Entries9 == {fill(FreshEntry, 0, 2, << >>), fill(FreshEntry, 1, 1, << >>)}

\* what a table operation leaves alone: the searches and the game
searchVars9 ==
    << gameVars, unitVars, tables, heap, pc, root, tp, lookOpening, lookEndGame,
       maxDepth, stopEvent, decision, decisionStack, score, currentDepth,
       stack, abResult, abMove, moveStack, idDecision, stopSeen, lastRet, lastStore,
       yields, visits, mgr, nSearches, engine, uci >>

\* table[k] = e
Put9(k, e) ==
    /\ Len(log9) < MaxOps
    /\ UNCHANGED searchVars9
    /\ tt9' = TTSet(tt9, k, e)
    /\ log9' = Append(log9, [op |-> "put", key |-> k, entry |-> e, found |-> TRUE,
                             len |-> TTLen(tt9')])

\* table[k]
Get9(k) ==
    /\ Len(log9) < MaxOps
    /\ UNCHANGED searchVars9
    /\ tt9' = tt9
    /\ LET r == TTGet(tt9, k, FreshEntry)
       IN  log9' = Append(log9, [op |-> "get", key |-> k, entry |-> r.val,
                                 found |-> r.found, len |-> TTLen(tt9)])

SearchIdle ==
    /\ ThreadsInit
    /\ mgr = IdleManager
    /\ nSearches = 0
    /\ tp = [t \in Threads |-> "default"]
    /\ root = [t \in Threads |-> 0]
    /\ lookOpening = [t \in Threads |-> TRUE]
    /\ lookEndGame = [t \in Threads |-> TRUE]
    /\ heur = PlainHeur
    /\ result = [p \in TerminalPositions |-> "1/2-1/2"]
    /\ rootPieces = 16
    /\ book = {}
    /\ tbOut = [ok |-> TRUE, wdl |-> 0]

InitTT == SearchIdle /\ TableIdle9 /\ OthersIdle

NextTT ==
    \/ \E k \in Keys9 : \E e \in Entries9 : Put9(k, e)
    \/ \E k \in Keys9 : Get9(k)

SpecTT == InitTT /\ [][NextTT]_vars

\* the key the claim speaks of: the position, without the move counters
ClaimKey(k) ==
    IF k.is_board
    THEN << k.board.placement, k.board.turn, k.board.castling, k.board.ep >>
    ELSE k.fields

\* the puts on the key of log9[i] that precede it
PutsBefore(i) ==
    {j \in 1 .. (i - 1) :
        log9[j].op = "put" /\ ClaimKey(log9[j].key) = ClaimKey(log9[i].key)}

\* C9: get(k) returns the entry of the most recent put on k, whatever the
\* depths; a key once stored stays, so len never decreases; get on a key
\* never stored fails; a position and its key string address one entry.
C9_LastWriteWins ==
    /\ \A i \in 1 .. Len(log9) :
          log9[i].op = "get" =>
             IF PutsBefore(i) = {}
             THEN ~log9[i].found
             ELSE LET last == CHOOSE j \in PutsBefore(i) : \A m \in PutsBefore(i) : m <= j
                  IN  log9[i].found /\ log9[i].entry = log9[last].entry
    /\ \A i \in 2 .. Len(log9) : log9[i].len >= log9[i - 1].len
    /\ \A b \in Boards9 :
          TTGet(tt9, BoardKey(b), FreshEntry) = TTGet(tt9, StringKey(cut_fen(b)), FreshEntry)
    /\ TTLen(tt9) = Cardinality({ClaimKey(log9[i].key) :
                                   i \in {j \in 1 .. Len(log9) : log9[j].op = "put"}})

\* a deep entry was put with a board, a shallow one over it with another
\* board of the same position, and a get with the key string returned the
\* shallow one
C9_Witness ==
    /\ Len(log9) = 3
    /\ log9[1].op = "put" /\ log9[1].key.is_board /\ log9[1].entry.depth = 2
    /\ log9[2].op = "put" /\ log9[2].key.is_board /\ log9[2].entry.depth = 1
    /\ log9[2].key # log9[1].key
    /\ log9[3].op = "get" /\ ~log9[3].key.is_board
    /\ log9[3].found /\ log9[3].entry = log9[2].entry
    /\ TTLen(tt9) = 1

(***************************************************************************)
(* iterative_deepening iterated by a caller of its own, as                  *)
(* list(thread.iterative_deepening(state, max_depth)) of the tests does     *)
(* (specification SpecID).  The thread is not started; what is yielded goes *)
(* to the caller, not to Searcher.decision.                                 *)
(***************************************************************************)
\* the max_depth arguments of the calls
MaxDepthArgs == 1 .. DepthCap

\* the caller takes the move of the opening book; the generator returns
YieldBookDirect(t) ==
    /\ pc[t] = "yield_book"
    /\ Yielded(t, idDecision[t])
    /\ pc' = [pc EXCEPT ![t] = "done"]
    /\ UNCHANGED << tables, heap, stopEvent, decision, decisionStack, score,
                    currentDepth, stack, abResult, abMove, moveStack, idDecision, stopSeen,
                    lastRet, lastStore >>
    /\ YieldFrame(t)

\* line 331: the caller takes the move of the depth
YieldDirect(t) ==
    /\ pc[t] = "yield"
    /\ Yielded(t, idDecision[t])
    /\ pc' = [pc EXCEPT ![t] = "chk332"]
    /\ UNCHANGED << tables, heap, stopEvent, decision, decisionStack, score,
                    currentDepth, stack, abResult, abMove, moveStack, idDecision, stopSeen,
                    lastRet, lastStore >>
    /\ YieldFrame(t)

InitID ==
    /\ ThreadFieldsInit
    /\ TableIdle9
    /\ OthersIdle
    /\ mgr = IdleManager
    /\ nSearches = 1
    /\ tp = [t \in Threads |-> "own"]
    /\ pc = [t \in Threads |-> IF t = 1 THEN "id" ELSE "new"]
    /\ \E m \in MaxDepthArgs : maxDepth = [t \in Threads |-> m]
    /\ \E r \in {0, 3} : root = [t \in Threads |-> r]
    /\ lookEndGame = [t \in Threads |-> TRUE]
    /\ rootPieces = 16
    /\ tbOut = [ok |-> TRUE, wdl |-> 0]
    /\ result \in FinalResults
    /\ \/ /\ heur \in [Positions \ TerminalPositions -> {0, 1}]
          /\ heur[0] = 0
          /\ book = {}
          /\ lookOpening = [t \in Threads |-> FALSE]
       \/ /\ heur = PlainHeur
          /\ book = {LegalMoves(0)[1], LegalMoves(0)[2], LegalMoves(3)[1]}
          /\ lookOpening = [t \in Threads |-> TRUE]

NextID ==
    \/ CallerStop
    \/ IdStep(1)
    \/ YieldBookDirect(1)
    \/ LoopStep(1)
    \/ Call(1)
    \/ Finish(1)
    \/ AbReturn(1)
    \/ Check326(1)
    \/ YieldDirect(1)
    \/ Check332(1)

SpecID == InitID /\ [][NextID]_vars

\* C11: iterative_deepening(state, max_depth) never runs alpha_beta_search
\* at a depth greater than max_depth and yields no result for such a depth.
C11_DepthWithinMaxDepth ==
    \A t \in Threads :
        /\ pc[t] \in {"search", "ab_ret", "chk326", "yield", "chk332"} =>
              currentDepth[t] <= maxDepth[t]
        /\ \A i \in 1 .. Len(yields[t]) : yields[t][i].depth <= maxDepth[t]

\* the depths within which the side to move at p can force checkmate
MateDepths(p) == {d \in 1 .. DepthCap : TrueValue(p, d) = WinValue}
MateDepth(p) == CHOOSE d \in MateDepths(p) : \A e \in MateDepths(p) : d <= e

\* the move starts a forced mate: after it the side to move is mated
StartsMate(m) == TrueValue(m.to, DepthCap) = -WinValue

\* the case of C12: a forced mate within max_depth, a search of the
\* position itself (no move from the book), no stop signalled
MateCase(t) ==
    /\ MateDepths(root[t]) # {}
    /\ MateDepth(root[t]) <= maxDepth[t]
    /\ ~stopEvent[t]
    /\ ~(lookOpening[t] /\ \E m \in book : m.from = root[t])

\* the generator has ended with the mate found: the last yield has score
\* 100000 at a depth within the mate depth and a move that starts the mate
MateYielded(t) ==
    /\ pc[t] = "done"
    /\ yields[t] # << >>
    /\ LET y == yields[t][Len(yields[t])]
       IN  /\ y.score \in {WinValue, -WinValue}
           /\ y.depth <= MateDepth(root[t])
           /\ StartsMate(y.move)

\* C12 (safety part): with a forced mate within d plies and no stop, the
\* search never goes deeper than d, does not loop again after depth d, does
\* not fail, and when it has ended the last yield is the mate.
C12_MateSafe ==
    MateCase(1) =>
        /\ currentDepth[1] <= MateDepth(root[1])
        /\ pc[1] = "loop" => currentDepth[1] < MateDepth(root[1])
        /\ pc[1] # "crashed"
        /\ pc[1] = "done" => MateYielded(1)

(***************************************************************************)
(* The opening book and the tablebase in the search thread (Spec).         *)
(***************************************************************************)
\* thread t has gone through lines 314-322 of iterative_deepening
PastBookLookup(t) == pc[t] \notin {"new", "run", "id"} /\ ~is_game_over(root[t])

\* the entry objects thread t has created
ObjectsOf(t) == {o \in DOMAIN heap : o.by = t}

\* C13: with opening probes enabled, the stage OPENING and a book that
\* holds moves for the root, iterative_deepening sets the stop flag, yields
\* one move, a move of the book, and returns without a negamax call or a
\* table write; with an empty book result it goes on to the depth-1 search.
C13_BookMoveOnly ==
    \A t \in Threads :
        (PastBookLookup(t) /\ lookOpening[t]
            /\ calculate_game_state(root[t], 0) = OPENING) =>
          IF \E m \in book : m.from = root[t]
          THEN /\ stopEvent[t]
               /\ visits[t].calls = 0
               /\ ObjectsOf(t) = {} /\ tables[tp[t]] = << >>
               /\ pc[t] \in {"yield_book", "done"}
               /\ pc[t] = "yield_book" => yields[t] = << >> /\ idDecision[t] \in book
               /\ pc[t] = "done" =>
                     /\ Len(yields[t]) = 1
                     /\ yields[t][1].move \in book
                     /\ yields[t][1].move.from = root[t]
          ELSE /\ pc[t] # "yield_book"
               /\ \/ pc[t] = "loop" /\ currentDepth[t] = 0 /\ yields[t] = << >>
                  \/ currentDepth[t] >= 1 /\ visits[t].calls >= 1
               /\ \A i \in 1 .. Len(yields[t]) : yields[t][i].depth >= 1

\* the generator has ended after yielding the second move of the book
C13_Witness ==
    /\ lookOpening[1] /\ pc[1] = "done"
    /\ book # {}
    /\ yields[1] = << [move |-> LegalMoves(0)[2], depth |-> 0, score |-> 0] >>

\* C14: when the tablebase path raises inside negamax (endgame probes
\* enabled, at most four pieces), the exception does not leave the call:
\* with no stop signalled the search thread is not ended by it.
C14_TablebaseFailureContained ==
    \A t \in Threads :
        (lookEndGame[t] /\ ~tbOut.ok /\ ~stopEvent[t]) => pc[t] # "crashed"

(***************************************************************************)
(* The clock of the time manager (specification SpecTM).                   *)
(***************************************************************************)
\* a step of perform_search that allocates and spends time
SearchBegins == mgr.pc = "idle" /\ mgr'.pc = "start"

\* the allocation the claim gives, in 1/Scale s: the minimum of
\* floor(base_time / moves_to_go) + increments and half the base_time, all
\* in milliseconds, divided by 1000
AllocationAsClaimed(m) ==
    LET base_ms == m.time_control.base_time \div Scale
        first == (base_ms \div m.moves_to_go)
                   + m.time_control.unconditional_increment
                   + m.time_control.conditional_increment
    IN  IF HalfDenominator * first <= base_ms THEN HalfDenominator * first
        ELSE base_ms

\* C15: allocate_time returns min(floor(base_time / moves_to_go) +
\* unconditional_increment + conditional_increment, 0.5 * base_time) / 1000
\* seconds, the quantities in the min in milliseconds (for a base_time of
\* whole milliseconds).
C15_AllocationFormula ==
    [][(SearchBegins /\ mgr.time_control.base_time % Scale = 0) =>
          mgr'.allocated = AllocationAsClaimed(mgr)]_vars

\* C16: a perform_search call takes t * 1000 off the clock's base_time
\* (milliseconds), t the seconds allocate_time returned for the call, and
\* changes no other field of the clock.
C16_ClockSpent ==
    [][SearchBegins =>
          /\ mgr'.time_control.base_time
                = mgr.time_control.base_time - MsPerSecond * mgr'.allocated
          /\ mgr'.time_control.unconditional_increment
                = mgr.time_control.unconditional_increment
          /\ mgr'.time_control.conditional_increment
                = mgr.time_control.conditional_increment]_vars

(***************************************************************************)
(* Stopping a running search (specification Spec).                         *)
(***************************************************************************)
\* the negamax invocations thread t made after its stop signal was set
CallsAfterStop(t) == visits[t].calls - visits[t].stop_calls

\* C17: when the stop signal is set during the recursion, the number of
\* negamax invocations the thread makes afterwards is at most the depth of
\* the negamax recursion stack at the moment the signal was set.
C17_BoundedAfterStop ==
    \A t \in Threads :
        visits[t].stop_depth >= 1 => CallsAfterStop(t) <= visits[t].stop_depth

(***************************************************************************)
(* engine.search, the interface without UCI (specification SpecEngine): a  *)
(* caller asks the engine for a move, and a caller runs a search thread on *)
(* a position of a finished game.                                          *)
(***************************************************************************)
\* the positions handed to engine.search and the seconds to think
EngineBoards == Positions
EngineSeconds == {DefaultSeconds}

\* engine.search(state, seconds) up to the start of the scheduler: a game
\* that is over returns (None, state); otherwise a new TimeManager on
\* Clock(base_time=seconds) whose allocate_time returns seconds performs
\* the search on a copy, with opening look-up and without end game look-up
EngineSearch(state, seconds) ==
    /\ engine.pc = "idle"
    /\ IF is_game_over(state)
       THEN /\ engine' = [pc |-> "returned", board |-> state, move |-> NoMove,
                          none |-> TRUE, pushed |-> state, started |-> FALSE]
            /\ UNCHANGED << mgr, nSearches, root, tp, lookOpening, lookEndGame >>
       ELSE /\ nSearches < MaxSearches
            /\ Construct(nSearches + 1, state, IdleManager.table, TRUE, FALSE)
            /\ mgr' = [spent_time([IdleManager EXCEPT
                                      !.time_control = Clock(seconds, 0, 0)],
                                   Scale * seconds)
                         EXCEPT !.pc = "start", !.done = FALSE,
                                !.thread = nSearches + 1,
                                !.allocated = Scale * seconds]
            /\ engine' = [pc |-> "searching", board |-> state, move |-> NoMove,
                          none |-> TRUE, pushed |-> state, started |-> TRUE]
    /\ UNCHANGED << gameVars, unitVars, tables, heap, pc, maxDepth, stopEvent, decision,
                    decisionStack, score, currentDepth, stack, abResult, abMove, moveStack,
                    idDecision, stopSeen, lastRet, lastStore, yields, visits,
                    tableVars9, uci >>

\* engine.search, lines 62-64: the decision is pushed on a copy and both
\* are returned; pushing a decision of None raises
EngineReturn ==
    /\ engine.pc = "searching"
    /\ mgr.pc = "idle" /\ mgr.done
    /\ engine' = IF mgr.decision = NoMove
                 THEN [engine EXCEPT !.pc = "raised"]
                 ELSE [engine EXCEPT !.pc = "returned", !.move = mgr.decision,
                                     !.none = FALSE, !.pushed = mgr.decision.to]
    /\ UNCHANGED << gameVars, unitVars, tables, heap, pc, root, tp, lookOpening,
                    lookEndGame, maxDepth, stopEvent, decision, decisionStack,
                    score, currentDepth, stack, abResult, abMove, moveStack, idDecision,
                    stopSeen, lastRet, lastStore, yields, visits, mgr,
                    nSearches, tableVars9, uci >>

\* thread 1 is a Search constructed by the caller on a finished game
InitEngine ==
    /\ ThreadsInit
    /\ TableIdle9
    /\ OthersIdle
    /\ mgr = IdleManager
    /\ nSearches = 1
    /\ tp = [t \in Threads |-> "own"]
    /\ \E r \in TerminalPositions : root = [t \in Threads |-> r]
    /\ lookOpening = [t \in Threads |-> FALSE]
    /\ lookEndGame = [t \in Threads |-> FALSE]
    /\ heur = PlainHeur
    /\ result \in FinalResults
    /\ rootPieces = 16
    /\ book \in {{}, {LegalMoves(0)[2]}}
    /\ tbOut = [ok |-> TRUE, wdl |-> 0]

NextEngine ==
    \/ CallerStart
    \/ \E state \in EngineBoards, seconds \in EngineSeconds :
          EngineSearch(state, seconds)
    \/ SchedulerStart
    \/ SchedulerStop
    \/ Harvest
    \/ EngineReturn
    \/ \E t \in Threads : ThreadStep(t)

SpecEngine == InitEngine /\ [][NextEngine]_vars

\* C18: engine.search on a position of a finished game returns None and a
\* position equal to the input without starting a searcher or exploring a
\* node, and Search.run on such a position ends without assigning a
\* decision, calling negamax or writing to the transposition table.
C18_GameOverNoSearch ==
    /\ (engine.pc # "idle" /\ engine.board \in TerminalPositions) =>
          /\ engine.pc = "returned"
          /\ engine.none /\ engine.move = NoMove
          /\ engine.pushed = engine.board
          /\ ~engine.started
          /\ mgr = IdleManager /\ nSearches = 1
    /\ \A t \in Threads :
          root[t] \in TerminalPositions =>
            /\ pc[t] \in {"new", "run", "done"}
            /\ decision[t] = NoMove /\ decisionStack[t] = << >>
            /\ yields[t] = << >> /\ visits[t].calls = 0
            /\ ObjectsOf(t) = {} /\ lastStore[t] = NoStore
            /\ tables[tp[t]] = << >>

\* both have returned on a finished game
C18_Witness ==
    /\ engine.pc = "returned" /\ engine.board \in TerminalPositions
    /\ pc[1] = "done" /\ root[1] \in TerminalPositions

(***************************************************************************)
(* uci.main, the driver loop (specification SpecUCI).  The lines of the    *)
(* input queue are the inputs of the actions; the time manager of the      *)
(* driver performs the searches.                                           *)
(***************************************************************************)
\* the driver is at the head of its loop: perform_search of an earlier go
\* has returned
AtLoop == uci.pc = "loop" /\ mgr.pc = "idle" /\ uci.asked < MaxOps

UciFrame ==
    UNCHANGED << gameVars, unitVars, tables, heap, pc, maxDepth, stopEvent, decision,
                 decisionStack, score, currentDepth, stack, abResult, abMove, moveStack,
                 idDecision, stopSeen, lastRet, lastStore, yields, visits,
                 tableVars9, engine >>
NoSearchFrame ==
    UNCHANGED << mgr, nSearches, root, tp, lookOpening, lookEndGame >>

\* lines 49-53: the queue is empty and the manager is done
UciBestmove ==
    /\ uci.pc = "loop" /\ mgr.pc = "idle"
    /\ mgr.done
    /\ uci.bestmoves < MaxBestmoves
    /\ uci' = IF mgr.decision = NoMove
              THEN [uci EXCEPT !.pc = "raised"]
              ELSE [uci EXCEPT !.printed = mgr.decision, !.out = "bestmove",
                               !.bestmoves = @ + 1]
    /\ NoSearchFrame /\ UciFrame

\* lines 55-57
UciQuit ==
    /\ AtLoop
    /\ uci' = [uci EXCEPT !.pc = "quit", !.asked = @ + 1]
    /\ NoSearchFrame /\ UciFrame

\* lines 59-64 and 87-91: isready, uci, stop and any other line
UciAnswers ==
    [isready |-> "readyok", uci |-> "id", stop |-> "", other |-> "Error"]
UciAnswer(line) ==
    /\ AtLoop
    /\ uci' = [uci EXCEPT !.out = UciAnswers[line], !.asked = @ + 1]
    /\ NoSearchFrame /\ UciFrame

\* lines 66-70: ucinewgame and position startpos
UciNewBoard ==
    /\ AtLoop
    /\ uci' = [uci EXCEPT !.board = 0, !.out = "", !.asked = @ + 1]
    /\ NoSearchFrame /\ UciFrame

\* the words after "position startpos moves": a word Move.from_uci parses
\* names a move, legal or not; a word it cannot parse raises ValueError
Word(f, t) == [parsed |-> TRUE, from |-> f, to |-> t]
BadWord == [parsed |-> FALSE, from |-> -1, to |-> -1]
MoveLists ==
    { << Word(0, 1), Word(1, 3), Word(3, 5) >>,
      << Word(0, 2) >>,
      << Word(0, 4) >>,
      << Word(0, 2), BadWord >> }

\* board.push, which does not look at the legality of the move
RECURSIVE PushAll(_, _)
PushAll(board, words) ==
    IF words = << >> THEN board
    ELSE PushAll(Head(words).to, Tail(words))

\* lines 72-77: all words are parsed, then pushed on a new board
UciPosition(words) ==
    /\ AtLoop
    /\ uci' = IF \E i \in 1 .. Len(words) : ~words[i].parsed
              THEN [uci EXCEPT !.pc = "raised", !.asked = @ + 1]
              ELSE [uci EXCEPT !.board = PushAll(0, words), !.out = "",
                               !.asked = @ + 1]
    /\ NoSearchFrame /\ UciFrame

\* the arguments of go: pairs of a key and a value, the value a number
\* float() converts or a word it does not
Pair(k, v) == [key |-> k, value |-> v, number |-> TRUE]
BadPair(k) == [key |-> k, value |-> 0, number |-> FALSE]
GoArguments ==
    { << >>,
      << Pair("wtime", 60000), Pair("btime", 60000), Pair("winc", 0),
         Pair("binc", 0), Pair("movestogo", 40) >>,
      << Pair("wtime", 3000), Pair("winc", 1000), Pair("binc", 500),
         Pair("movestogo", 2) >>,
      << BadPair("wtime") >> }

\* process_uci_time_information: the dictionary of the pairs
Keys(pairs) == {pairs[i].key : i \in 1 .. Len(pairs)}
process_uci_time_information(pairs) ==
    [k \in Keys(pairs) |->
        pairs[CHOOSE i \in 1 .. Len(pairs) :
                 pairs[i].key = k
                   /\ \A j \in i + 1 .. Len(pairs) : pairs[j].key # k].value]

\* a parameter of info_from_uci: the keyword argument of its name, or its
\* default
Parameter(information, name, default) ==
    IF name \in DOMAIN information THEN information[name] ELSE default

\* TimeManager.info_from_uci(**information)
info_from_uci(m, information) ==
    LET infinite == Parameter(information, "infinite", 0) # 0
        wtime == IF infinite THEN InfiniteWtime
                 ELSE Parameter(information, "wtime", DefaultWtime)
    IN  [m EXCEPT !.time_control =
                     Clock(wtime, Parameter(information, "winc", 0),
                           Parameter(information, "binc", 0)),
                  !.moves_to_go =
                     Parameter(information, "movestog", DefaultMovestog)]

\* lines 79-85: go with an even number of arguments; perform_search up to
\* the start of the scheduler
UciGo(pairs) ==
    /\ AtLoop
    /\ IF \E i \in 1 .. Len(pairs) : ~pairs[i].number
       THEN /\ uci' = [uci EXCEPT !.pc = "raised", !.asked = @ + 1]
            /\ NoSearchFrame
       ELSE LET information == process_uci_time_information(pairs)
                m == info_from_uci(mgr, information)
            IN  /\ nSearches < MaxGo
                /\ Representable(m)
                /\ Construct(nSearches + 1, uci.board, m.table, TRUE, FALSE)
                /\ mgr' = [spent_time(m, allocate_time(m)) EXCEPT
                             !.pc = "start", !.done = FALSE,
                             !.thread = nSearches + 1,
                             !.allocated = allocate_time(m)]
                /\ uci' = [uci EXCEPT !.go = information, !.out = "",
                                      !.asked = @ + 1, !.bestmoves = 0]
    /\ UciFrame

\* main, lines 40-41: Board(INITIAL) and TimeManager()
InitUCI ==
    /\ ThreadsInit
    /\ TableIdle9
    /\ engine = EngineIdle
    /\ UnitIdle
    /\ uci = [UciIdle EXCEPT !.pc = "loop"]
    /\ mgr = IdleManager
    /\ nSearches = 0
    /\ tp = [t \in Threads |-> "default"]
    /\ root = [t \in Threads |-> 0]
    /\ lookOpening = [t \in Threads |-> TRUE]
    /\ lookEndGame = [t \in Threads |-> FALSE]
    /\ heur = PlainHeur
    /\ result = [p \in TerminalPositions |-> "1/2-1/2"]
    /\ rootPieces = 16
    /\ book \in {{}, {LegalMoves(0)[2]}}
    /\ tbOut = [ok |-> TRUE, wdl |-> 0]

NextUCI ==
    \/ UciBestmove
    \/ UciQuit
    \/ \E line \in DOMAIN UciAnswers : UciAnswer(line)
    \/ UciNewBoard
    \/ \E words \in MoveLists : UciPosition(words)
    \/ \E pairs \in GoArguments : UciGo(pairs)
    \/ SchedulerStart
    \/ SchedulerStop
    \/ Harvest
    \/ \E t \in Threads : ThreadStep(t)

SpecUCI == InitUCI /\ [][NextUCI]_vars

\* C19: the driver loop ends only through the quit command: no error of an
\* invalid input (a malformed or illegal move, a go on a finished game, a
\* line that is no command) leaves the loop.
C19_DriverSurvives == uci.pc # "raised"

\* C20: after a go that carries movestogo N, the manager's moves_to_go is
\* N and the time allocated for the search is that of N moves to go;
\* wtime, winc and binc are the base time and the increments of the clock
\* the allocation is taken from.
C20_GoSetsClock ==
    (mgr.pc = "start" /\ "movestogo" \in DOMAIN uci.go) =>
        LET asked == [mgr EXCEPT
                        !.time_control =
                           Clock(Parameter(uci.go, "wtime", DefaultWtime),
                                 Parameter(uci.go, "winc", 0),
                                 Parameter(uci.go, "binc", 0)),
                        !.moves_to_go = uci.go.movestogo]
        IN  /\ mgr.moves_to_go = uci.go.movestogo
            /\ mgr.allocated = allocate_time(asked)
            /\ mgr.time_control = spent_time(asked, mgr.allocated).time_control

(***************************************************************************)
(* Functions of the library called on their own, as the unit tests call    *)
(* them (specification SpecUnit): the arguments are drawn at the start,    *)
(* the function is applied once.                                           *)
(***************************************************************************)
\* a call of the library touches no search, manager, engine or driver
UnitFrame ==
    UNCHANGED << gameVars, tables, heap, pc, root, tp, lookOpening, lookEndGame,
                 maxDepth, stopEvent, decision, decisionStack, score,
                 currentDepth, stack, abResult, abMove, moveStack, idDecision, stopSeen,
                 lastRet, lastStore, yields, visits, mgr, nSearches, engine,
                 uci, tableVars9 >>

\* piece_squared_tables.py: the tables, the first row is rank 8
PAWNS ==
    << <<   0,   0,   0,   0,   0,   0,   0,   0 >>,
       <<  50,  50,  50,  50,  50,  50,  50,  50 >>,
       <<  10,  10,  20,  30,  30,  20,  10,  10 >>,
       <<   5,   5,  10,  25,  25,  10,   5,   5 >>,
       <<   0,   0,   0,  20,  20,   0,   0,   0 >>,
       <<   5,  -5, -10,   0,   0, -10,  -5,   5 >>,
       <<   5,  10,  10, -20, -20,  10,  10,   5 >>,
       <<   0,   0,   0,   0,   0,   0,   0,   0 >> >>

KNIGHTS ==
    << << -50, -40, -30, -30, -30, -30, -40, -50 >>,
       << -40, -20,   0,   0,   0,   0, -20, -40 >>,
       << -30,   0,  10,  15,  15,  10,   0, -30 >>,
       << -30,   5,  15,  20,  20,  15,   5, -30 >>,
       << -30,   0,  15,  20,  20,  15,   0, -30 >>,
       << -30,   5,  10,  15,  15,  10,   5, -30 >>,
       << -40, -20,   0,   5,   5,   0, -20, -40 >>,
       << -50, -40, -30, -30, -30, -30, -40, -50 >> >>

BISHOPS ==
    << << -20, -10, -10, -10, -10, -10, -10, -20 >>,
       << -10,   0,   0,   0,   0,   0,   0, -10 >>,
       << -10,   0,   5,  10,  10,   5,   0, -10 >>,
       << -10,   5,   5,  10,  10,   5,   5, -10 >>,
       << -10,   0,  10,  10,  10,  10,   0, -10 >>,
       << -10,  10,  10,  10,  10,  10,  10, -10 >>,
       << -10,   5,   0,   0,   0,   0,   5, -10 >>,
       << -20, -10, -10, -10, -10, -10, -10, -20 >> >>

ROOKS ==
    << <<   0,   0,   0,   0,   0,   0,   0,   0 >>,
       <<   5,  10,  10,  10,  10,  10,  10,   5 >>,
       <<  -5,   0,   0,   0,   0,   0,   0,  -5 >>,
       <<  -5,   0,   0,   0,   0,   0,   0,  -5 >>,
       <<  -5,   0,   0,   0,   0,   0,   0,  -5 >>,
       <<  -5,   0,   0,   0,   0,   0,   0,  -5 >>,
       <<  -5,   0,   0,   0,   0,   0,   0,  -5 >>,
       <<   0,   0,   0,   5,   5,   0,   0,   0 >> >>

QUEENS ==
    << << -20, -10, -10,  -5,  -5, -10, -10, -20 >>,
       << -10,   0,   0,   0,   0,   0,   0, -10 >>,
       << -10,   0,   5,   5,   5,   5,   0, -10 >>,
       <<  -5,   0,   5,   5,   5,   5,   0,  -5 >>,
       <<   0,   0,   5,   5,   5,   5,   0,  -5 >>,
       << -10,   5,   5,   5,   5,   5,   0, -10 >>,
       << -10,   0,   5,   0,   0,   0,   0, -10 >>,
       << -20, -10, -10,  -5,  -5, -10, -10, -20 >> >>

KING_MIDDLEGAME ==
    << << -30, -40, -40, -50, -50, -40, -40, -30 >>,
       << -30, -40, -40, -50, -50, -40, -40, -30 >>,
       << -30, -40, -40, -50, -50, -40, -40, -30 >>,
       << -30, -40, -40, -50, -50, -40, -40, -30 >>,
       << -20, -30, -30, -40, -40, -30, -30, -20 >>,
       << -10, -20, -20, -20, -20, -20, -20, -10 >>,
       <<  20,  20,   0,   0,   0,   0,  20,  20 >>,
       <<  20,  30,  10,   0,   0,  10,  30,  20 >> >>

KING_ENDGAME ==
    << << -50, -40, -30, -20, -20, -30, -40, -50 >>,
       << -30, -20, -10,   0,   0, -10, -20, -30 >>,
       << -30, -10,  20,  30,  30,  20, -10, -30 >>,
       << -30, -10,  30,  40,  40,  30, -10, -30 >>,
       << -30, -10,  30,  40,  40,  30, -10, -30 >>,
       << -30, -10,  20,  30,  30,  20, -10, -30 >>,
       << -30, -30,   0,   0,   0,   0, -30, -30 >>,
       << -50, -30, -30, -30, -30, -30, -30, -50 >> >>

\* ASSIGNMENT: the table of a piece type; the king has one per game stage
PieceTypes == {"PAWN", "KNIGHT", "BISHOP", "ROOK", "QUEEN", "KING"}
GameStages == {OPENING, MIDDLE_GAME, END_GAME}
ASSIGNMENT ==
    [KING |-> [g \in GameStages |->
                  IF g = END_GAME THEN KING_ENDGAME ELSE KING_MIDDLEGAME],
     QUEEN |-> QUEENS, BISHOP |-> BISHOPS, KNIGHT |-> KNIGHTS,
     ROOK |-> ROOKS, PAWN |-> PAWNS]

\* numpy's assignment[row, column], both counted from 0
At(table, row, column) == table[row + 1][column + 1]

Squares == 0 .. 63
Piece(type, color) == [piece_type |-> type, color |-> color]

\* a value that reads the row of the square for white as for black
value_NoFlip(piece, square, game_stage) ==
    LET assignment == IF piece.piece_type = "KING"
                      THEN ASSIGNMENT[piece.piece_type][game_stage]
                      ELSE ASSIGNMENT[piece.piece_type]
    IN  IF piece.color THEN At(assignment, square \div 8, square % 8)
        ELSE -At(assignment, square \div 8, square % 8)

\* piece_squared_tables.value(piece, square, game_stage)
value(piece, square, game_stage) ==
    LET assignment == IF piece.piece_type = "KING"
                      THEN ASSIGNMENT[piece.piece_type][game_stage]
                      ELSE ASSIGNMENT[piece.piece_type]
    IN  IF piece.color THEN At(assignment, 7 - (square \div 8), square % 8)
        ELSE -At(assignment, square \div 8, square % 8)

\* the calls of value the specification draws from
ValueCalls ==
    [fn : {"value"}, done : {FALSE}, piece : {Piece(ty, c) : ty \in PieceTypes, c \in BOOLEAN},
     square : Squares, game_stage : GameStages]

\* pst.value(piece, square, game_stage) is evaluated
ApplyValue ==
    /\ call.fn = "value" /\ ~call.done
    /\ call' = [fn |-> "value", done |-> TRUE, piece |-> call.piece,
                square |-> call.square, game_stage |-> call.game_stage,
                result |-> value(call.piece, call.square, call.game_stage)]
    /\ UNCHANGED linear
    /\ UnitFrame

\* is_move_forward(board, move): the rows are (square - 1) // 8
is_move_forward(turn, from_square, to_square) ==
    LET to_square_row == (to_square - 1) \div 8
        from_square_row == (from_square - 1) \div 8
    IN  IF turn THEN to_square_row > from_square_row
        ELSE from_square_row > to_square_row

\* the calls of is_move_forward: the side to move and the squares of a move
ForwardCalls ==
    [fn : {"is_move_forward"}, done : {FALSE}, turn : BOOLEAN,
     from_square : Squares, to_square : Squares]

ApplyForward ==
    /\ call.fn = "is_move_forward" /\ ~call.done
    /\ call' = [fn |-> "is_move_forward", done |-> TRUE, turn |-> call.turn,
                from_square |-> call.from_square, to_square |-> call.to_square,
                result |-> is_move_forward(call.turn, call.from_square,
                                           call.to_square)]
    /\ UNCHANGED linear
    /\ UnitFrame

\* heuristics.SIMPLE_MATERIAL_VALUES
SIMPLE_MATERIAL_VALUES ==
    [PAWN |-> 1, KNIGHT |-> 3, BISHOP |-> 3, ROOK |-> 5, QUEEN |-> 9,
     KING |-> 20]

\* mvv_lva(piece, captures): victim + (king - aggressor) / king, as a
\* number of 1/king (twentieths)
mvv_lva(piece, captures) ==
    LET aggressor == SIMPLE_MATERIAL_VALUES[piece]
        victim == SIMPLE_MATERIAL_VALUES[captures]
    IN  victim * SIMPLE_MATERIAL_VALUES.KING
          + (SIMPLE_MATERIAL_VALUES.KING - aggressor)

\* board.piece_at(move.to_square): the piece a move captures stands on its
\* destination square, but for a capture en passant, where that is empty
NoPiece == "none"
PieceAtDestination(captured, en_passant) ==
    IF en_passant THEN NoPiece ELSE captured

\* is_move_takes(board, move): (takes, priority)
is_move_takes(aggressor, victim) ==
    IF victim = NoPiece THEN [takes |-> FALSE, prio |-> 0]
    ELSE [takes |-> TRUE, prio |-> mvv_lva(aggressor, victim)]

\* the moves is_move_takes is called with: the piece that moves, the piece
\* it captures (none for a quiet move), and whether it captures en passant
TakesCalls ==
    { c \in [fn : {"is_move_takes"}, done : {FALSE}, aggressor : PieceTypes,
             captured : (PieceTypes \ {"KING"}) \cup {NoPiece},
             en_passant : BOOLEAN] :
        c.en_passant => c.aggressor = "PAWN" /\ c.captured = "PAWN" }

ApplyTakes ==
    /\ call.fn = "is_move_takes" /\ ~call.done
    /\ call' = [fn |-> "is_move_takes", done |-> TRUE,
                aggressor |-> call.aggressor, captured |-> call.captured,
                en_passant |-> call.en_passant,
                result |-> is_move_takes(call.aggressor,
                                         PieceAtDestination(call.captured,
                                                            call.en_passant))]
    /\ UNCHANGED linear
    /\ UnitFrame

\* a legal move as prioritize_move sees it: its squares, whether the
\* opponent is in check after it, the piece that moves and the piece on its
\* destination square
LegalMove(from, to, check, aggressor, victim) ==
    [from_square |-> from, to_square |-> to, check |-> check,
     aggressor |-> aggressor, victim |-> victim]

\* prioritize_move(board, move), in twentieths: 21 for a check, the
\* priority of is_move_takes for a capture, 1 for an advance, else 0
prioritize_move(turn, move) ==
    IF move.check THEN 21 * SIMPLE_MATERIAL_VALUES.KING
    ELSE IF is_move_takes(move.aggressor, move.victim).takes
    THEN is_move_takes(move.aggressor, move.victim).prio
    ELSE IF is_move_forward(turn, move.from_square, move.to_square)
    THEN SIMPLE_MATERIAL_VALUES.KING
    ELSE 0

\* the moves with their priority assigned
WithPriority(turn, moves) ==
    [i \in 1 .. Len(moves) |->
        [move |-> moves[i], priority |-> prioritize_move(turn, moves[i])]]

\* a prioritized that assigns the priorities and does not sort
prioritized_moves_Unsorted(turn, moves) == WithPriority(turn, moves)

\* moves.prioritized(board) for a board with the given legal moves
prioritized_moves(turn, moves) == SortByPriority(WithPriority(turn, moves))

\* legal moves of a position: a knight takes a pawn, a knight gives check,
\* a pawn advances, a rook moves along the first rank, a queen takes a
\* queen, a king takes a rook giving check, a bishop retreats
MovePool ==
    { LegalMove(35, 52, FALSE, "KNIGHT", "PAWN"),
      LegalMove(35, 45, TRUE, "KNIGHT", NoPiece),
      LegalMove(9, 17, FALSE, "PAWN", NoPiece),
      LegalMove(3, 59, FALSE, "QUEEN", "QUEEN"),
      LegalMove(4, 5, TRUE, "KING", "ROOK"),
      LegalMove(26, 12, FALSE, "BISHOP", NoPiece) }

\* the lists of at most MaxMoves different moves of the pool
MoveListsOf(n) ==
    { l \in [1 .. n -> MovePool] : \A i, j \in 1 .. n : i # j => l[i] # l[j] }
PrioritizedCalls ==
    [fn : {"prioritized"}, done : {FALSE}, turn : BOOLEAN,
     legal_moves : UNION { MoveListsOf(n) : n \in 0 .. MaxMoves }]

ApplyPrioritized ==
    /\ call.fn = "prioritized" /\ ~call.done
    /\ call' = [fn |-> "prioritized", done |-> TRUE, turn |-> call.turn,
                legal_moves |-> call.legal_moves,
                result |-> prioritized_moves(call.turn, call.legal_moves)]
    /\ UNCHANGED linear
    /\ UnitFrame

InitUnit ==
    /\ SearchIdle /\ TableIdle9
    /\ engine = EngineIdle /\ uci = UciIdle
    /\ linear = NoLinear
    /\ \/ call \in ValueCalls
       \/ call \in ForwardCalls
       \/ call \in TakesCalls
       \/ call \in PrioritizedCalls

NextUnit ==
    \/ ApplyValue
    \/ ApplyForward
    \/ ApplyTakes
    \/ ApplyPrioritized

SpecUnit == InitUnit /\ [][NextUnit]_vars

\* the square on the same file with rank 7 - rank
Mirror(square) == 8 * (7 - (square \div 8)) + (square % 8)

\* C21: for every piece type, square and game stage, the value of the
\* white piece on the square is the negation of the value of the black
\* piece of that type on the vertically mirrored square.
C21_MirrorSymmetry ==
    (call.fn = "value" /\ call.done) =>
        call.result = -value(Piece(call.piece.piece_type, ~call.piece.color),
                             Mirror(call.square), call.game_stage)

\* the white pawn on d2 (square 11) has the value -20
C21_Witness ==
    /\ call.fn = "value" /\ call.done
    /\ call.piece = Piece("PAWN", TRUE) /\ call.square = 11
    /\ call.result = -20

\* chess.square_rank
Rank(square) == square \div 8

\* C23: for every pair of squares, is_move_forward is true exactly when
\* the rank of the destination is greater than the rank of the source with
\* white to move, or smaller with black to move; a move within one rank is
\* never an advance.
C23_ForwardIsRankAdvance ==
    (call.fn = "is_move_forward" /\ call.done) =>
        call.result = IF call.turn
                      THEN Rank(call.to_square) > Rank(call.from_square)
                      ELSE Rank(call.to_square) < Rank(call.from_square)

\* the tiebreak (king - aggressor) / king of a priority, in twentieths
Tiebreak(prio, captured) ==
    prio - SIMPLE_MATERIAL_VALUES[captured] * SIMPLE_MATERIAL_VALUES.KING

\* C24: for every capture the static priority is victim_value +
\* (king_value - aggressor_value) / king_value, and the tiebreak term lies
\* in (0, 1] for every aggressor, the king included.
C24_CapturePriority ==
    (call.fn = "is_move_takes" /\ call.done /\ call.captured # NoPiece) =>
        /\ call.result.takes
        /\ call.result.prio
             = SIMPLE_MATERIAL_VALUES[call.captured] * SIMPLE_MATERIAL_VALUES.KING
                 + (SIMPLE_MATERIAL_VALUES.KING
                      - SIMPLE_MATERIAL_VALUES[call.aggressor])
        /\ 0 < Tiebreak(call.result.prio, call.captured)
        /\ Tiebreak(call.result.prio, call.captured)
             <= SIMPLE_MATERIAL_VALUES.KING

\* how often a move occurs in a list of moves with priorities
Occurrences(list, move) ==
    Cardinality({i \in 1 .. Len(list) : list[i].move = move})

\* C25: prioritized returns every legal move of the position exactly once,
\* each with the priority prioritize_move assigns to it, and the priorities
\* do not increase along the list.
C25_PrioritizedSorted ==
    (call.fn = "prioritized" /\ call.done) =>
        /\ Len(call.result) = Len(call.legal_moves)
        /\ \A i \in 1 .. Len(call.legal_moves) :
              Occurrences(call.result, call.legal_moves[i]) = 1
        /\ \A i \in 1 .. Len(call.result) :
              call.result[i].priority
                = prioritize_move(call.turn, call.result[i].move)
        /\ \A i \in 1 .. Len(call.result) - 1 :
              call.result[i].priority >= call.result[i + 1].priority

\* the bishop's retreat, the knight's capture and the knight's check were
\* handed over in this order and come back reversed
C25_Witness ==
    /\ call.fn = "prioritized" /\ call.done /\ call.turn
    /\ call.legal_moves = << LegalMove(26, 12, FALSE, "BISHOP", NoPiece),
                             LegalMove(35, 52, FALSE, "KNIGHT", "PAWN"),
                             LegalMove(35, 45, TRUE, "KNIGHT", NoPiece) >>
    /\ Len(call.result) = 3
    /\ call.result[1].move = call.legal_moves[3]
    /\ call.result[2].move = call.legal_moves[2]
    /\ call.result[3].move = call.legal_moves[1]


(***************************************************************************)
(* LinearEvaluation (specification SpecEval): features are added to and    *)
(* removed from an evaluation, and positions are evaluated with it.  The   *)
(* field registered keeps, as pairs, the features a caller has added and   *)
(* not removed.                                                            *)
(***************************************************************************)
\* the features and weights a caller adds: lambda _: 1, lambda _: 3 and a
\* feature that depends on the position
Features ==
    { [p \in Positions |-> 1], [p \in Positions |-> 3],
      [p \in Positions |-> p - 2] }
Weights == {1, -2}

\* list.pop(index), index counted from 0
Pop(list, index) ==
    [i \in 1 .. Len(list) - 1 |-> IF i <= index THEN list[i] ELSE list[i + 1]]

\* check_valid_index
check_valid_index(e, index) == 0 <= index /\ index < Len(e.features)

\* check_consistency: TRUE when it raises
check_consistency(e) == Len(e.features) # Len(e.weights)

\* a remove_feature that forgets the weight
remove_feature_KeepWeight(e, index) ==
    IF check_valid_index(e, index)
    THEN [e EXCEPT !.features = Pop(@, index)]
    ELSE e

\* remove_feature: the fields after the call
remove_feature(e, index) ==
    IF check_valid_index(e, index)
    THEN [e EXCEPT !.features = Pop(@, index), !.weights = Pop(@, index)]
    ELSE e

\* add_feature(feature, weight)
AddFeature(feature, weight) ==
    /\ linear.ops < MaxOps
    /\ LET e == [linear EXCEPT !.features = Append(@, feature),
                               !.weights = Append(@, weight)]
       IN  /\ ~check_consistency(e)
           /\ linear' = [e EXCEPT !.registered =
                                     Append(@, [feature |-> feature,
                                                weight |-> weight]),
                                  !.ops = @ + 1]
    /\ UNCHANGED call
    /\ UnitFrame

\* remove_feature(index)
RemoveFeature(index) ==
    /\ linear.ops < MaxOps
    /\ linear' = [remove_feature(linear, index) EXCEPT
                    !.registered = IF 0 <= index /\ index < Len(@)
                                   THEN Pop(@, index) ELSE @,
                    !.ops = @ + 1]
    /\ UNCHANGED call
    /\ UnitFrame

\* np.sum of features[i](state) * weights[i] for i in range(len(features))
RECURSIVE SumProducts(_, _, _, _)
SumProducts(features, weights, state, i) ==
    IF i > Len(features) THEN 0
    ELSE features[i][state] * weights[i]
           + SumProducts(features, weights, state, i + 1)

\* calculate(state); weights[i] of a missing weight raises IndexError; the
\* call keeps the features registered when it was made
Calculate(state) ==
    /\ call' = [fn |-> "calculate", done |-> TRUE, state |-> state,
                registered |-> linear.registered,
                raised |-> ~is_game_over(state)
                             /\ Len(linear.weights) < Len(linear.features),
                result |-> IF is_game_over(state) THEN utility(state)
                           ELSE IF Len(linear.weights) < Len(linear.features)
                           THEN 0
                           ELSE SumProducts(linear.features, linear.weights,
                                            state, 1)]
    /\ UNCHANGED linear
    /\ UnitFrame

\* the indices handed to remove_feature
RemoveIndices == -1 .. MaxOps

\* LinearEvaluation()
InitEval ==
    /\ SearchIdle /\ TableIdle9
    /\ engine = EngineIdle /\ uci = UciIdle
    /\ UnitIdle

NextEval ==
    \/ \E feature \in Features, weight \in Weights : AddFeature(feature, weight)
    \/ \E index \in RemoveIndices : RemoveFeature(index)
    \/ \E state \in Positions : Calculate(state)

SpecEval == InitEval /\ [][NextEval]_vars

\* the sum of weight * feature(state) over a list of registered pairs
RECURSIVE SumRegistered(_, _)
SumRegistered(pairs, state) ==
    IF pairs = << >> THEN 0
    ELSE Head(pairs).weight * Head(pairs).feature[state]
           + SumRegistered(Tail(pairs), state)

\* C22: after any sequence of add_feature and remove_feature calls (a
\* remove_feature with an index out of range changes nothing) the feature
\* list and the weight list have the same length and hold the registered
\* features, and calculate on a position of a running game returns the sum
\* of weight * feature(position) over them, 0 for the empty list.
C22_FeaturesAndWeights ==
    /\ Len(linear.features) = Len(linear.weights)
    /\ Len(linear.features) = Len(linear.registered)
    /\ \A i \in 1 .. Len(linear.registered) :
          /\ linear.features[i] = linear.registered[i].feature
          /\ linear.weights[i] = linear.registered[i].weight
    /\ (call.fn = "calculate" /\ ~is_game_over(call.state)) =>
          /\ ~call.raised
          /\ call.result = SumRegistered(call.registered, call.state)
          /\ call.registered = << >> => call.result = 0

\* two features were added, the first was removed, and position 4 is
\* evaluated with the remaining feature p - 2 of weight -2
C22_Witness ==
    /\ linear.ops = 3
    /\ linear.registered = << [feature |-> [p \in Positions |-> p - 2],
                               weight |-> -2] >>
    /\ call.fn = "calculate" /\ call.state = 4 /\ call.result = -4

(***************************************************************************)
(* Search.quiesce on a board of its own (specification SpecQuiesce).  The  *)
(* board has NumSquares squares; a piece of the side to move may go to any *)
(* other square that holds no piece of its side, capturing what stands     *)
(* there.  The board is the one object all calls push to and pop from; the *)
(* calls are frames, innermost last.                                       *)
(***************************************************************************)
QSquares == 1 .. NumSquares
Empty == Piece(NoPiece, FALSE)
QPieces ==
    { Empty, Piece("PAWN", TRUE), Piece("QUEEN", TRUE), Piece("PAWN", FALSE),
      Piece("ROOK", FALSE) }

\* len(state.piece_map())
PieceCount(board) == Cardinality({sq \in QSquares : board.at[sq] # Empty})

\* list(board.legal_moves), by from and to square
QMove(from, to) == [from_square |-> from, to_square |-> to]
IsLegal(board, m) ==
    /\ m.from_square # m.to_square
    /\ board.at[m.from_square] # Empty
    /\ board.at[m.from_square].color = board.turn
    /\ \/ board.at[m.to_square] = Empty
       \/ board.at[m.to_square].color # board.turn
RECURSIVE MovesFrom(_, _)
MovesFrom(board, n) ==
    IF n >= NumSquares * NumSquares THEN << >>
    ELSE LET m == QMove((n \div NumSquares) + 1, (n % NumSquares) + 1)
         IN  (IF IsLegal(board, m) THEN << m >> ELSE << >>)
               \o MovesFrom(board, n + 1)
legal_moves(board) == MovesFrom(board, 0)

\* board.push(move): the piece goes to the destination, what stood there
\* is kept on the move stack, the turn changes
push(b, m) ==
    [at |-> [b.at EXCEPT ![m.to_square] = b.at[m.from_square],
                         ![m.from_square] = Empty],
     turn |-> ~b.turn,
     move_stack |-> Append(b.move_stack,
                           [move |-> m, captured |-> b.at[m.to_square]])]

\* board.pop(): the last move is taken back
pop(b) ==
    LET last == b.move_stack[Len(b.move_stack)]
    IN  [at |-> [b.at EXCEPT ![last.move.from_square] = b.at[last.move.to_square],
                             ![last.move.to_square] = last.captured],
         turn |-> ~b.turn,
         move_stack |-> SubSeq(b.move_stack, 1, Len(b.move_stack) - 1)]

\* self.evaluation[state]: the material of white less the material of black
RECURSIVE Material(_, _)
Material(board, sq) ==
    IF sq > NumSquares THEN 0
    ELSE (IF board.at[sq] = Empty THEN 0
          ELSE IF board.at[sq].color
          THEN SIMPLE_MATERIAL_VALUES[board.at[sq].piece_type]
          ELSE -SIMPLE_MATERIAL_VALUES[board.at[sq].piece_type])
           + Material(board, sq + 1)

\* the moves a list of keyed moves starts with: its taking moves
number_of_moves_All(keyed) == Len(keyed)

\* moves_for_rest_search: number_of_moves, the number of taking moves
number_of_moves(keyed) ==
    Cardinality({i \in 1 .. Len(keyed) : keyed[i].k >= 0})

\* moves_for_rest_search(board): prio of is_move_takes for a taking move,
\* -1 otherwise; sorted; the taking moves are kept
rest_search_moves(board) ==
    LET moves == legal_moves(board)
        takes(m) == is_move_takes(board.at[m.from_square].piece_type,
                                  board.at[m.to_square].piece_type)
        keyed == [i \in 1 .. Len(moves) |->
                    [k |-> IF takes(moves[i]).takes THEN takes(moves[i]).prio
                           ELSE -1,
                     x |-> moves[i]]]
    IN  SubSeq(SortKeyed(keyed), 1, number_of_moves(keyed))

\* moves_for_rest_search for every placement of the pieces and side to
\* move (it reads nothing else of the board), as a table built once
Placements == [at : [QSquares -> QPieces], turn : BOOLEAN]
RestSearchMoves ==
    [b \in Placements |-> rest_search_moves(b)] @@ << >>
Placement(board) == [at |-> board.at, turn |-> board.turn]

\* quiesce, lines 450-452: the value of the position does not exceed beta
\* and the call goes on to the captures
MayRecurse(board, beta) ==
    ~(Material(board, 1) * (IF board.turn THEN 1 ELSE -1) > beta)

\* a frame of quiesce: its window, where it is, and the board and the
\* length of the move stack it was entered with
QFrame(alpha, beta, board) ==
    [alpha |-> alpha, beta |-> beta, pc |-> "enter", entry |-> board,
     explored |-> 0]

\* quiesce returns value from the innermost frame
QReturn(c, board, returned) ==
    LET fr == c.frames[Len(c.frames)]
    IN  [c EXCEPT !.board = board,
                  !.frames = SubSeq(@, 1, Len(@) - 1),
                  !.returning = TRUE,
                  !.ret = returned,
                  !.last = [value |-> returned, alpha |-> fr.alpha,
                            beta |-> fr.beta, explored |-> fr.explored,
                            captures |-> Len(RestSearchMoves[Placement(fr.entry)]),
                            entry |-> fr.entry, board |-> board],
                  !.returns = @ + 1,
                  !.done = Len(c.frames) = 1]

\* lines 447-461: the innermost call evaluates the position and either
\* returns or pushes its best capture and calls quiesce
QuiesceEnter ==
    /\ call.fn = "quiesce" /\ ~call.done /\ ~call.returning
    /\ LET fr == call.frames[Len(call.frames)]
           factor == IF call.board.turn THEN 1 ELSE -1
           current_value == Material(call.board, 1) * factor
           alpha == IF fr.alpha < current_value THEN current_value ELSE fr.alpha
           captures == RestSearchMoves[Placement(call.board)]
       IN  IF ~MayRecurse(call.board, fr.beta)
           THEN call' = QReturn(call, call.board, fr.beta)
           ELSE IF captures = << >>
           THEN call' = QReturn(call, call.board, alpha)
           ELSE call' =
                  [call EXCEPT
                     !.board = push(call.board, captures[1].x),
                     !.frames =
                        Append([@ EXCEPT ![Len(@)] =
                                  [fr EXCEPT !.alpha = alpha, !.pc = "called",
                                             !.explored = @ + 1]],
                               QFrame(-fr.beta, -alpha,
                                      push(call.board, captures[1].x))),
                     !.pushed = [prio |-> captures[1].k,
                                 best |-> captures[1].k,
                                 victim |-> call.board.at[captures[1].x.to_square]],
                     !.deepest = Max(@, Len(call.frames))]
    /\ UNCHANGED linear
    /\ UnitFrame

\* lines 462-467: the called quiesce has returned; the move is popped and
\* the call returns
QuiesceResume ==
    /\ call.fn = "quiesce" /\ ~call.done /\ call.returning
    /\ LET fr == call.frames[Len(call.frames)]
           new_score == -call.ret
           board == pop(call.board)
       IN  call' = QReturn(call, board,
                           IF new_score >= fr.beta THEN fr.beta
                           ELSE IF new_score > fr.alpha THEN new_score
                           ELSE fr.alpha)
    /\ UNCHANGED linear
    /\ UnitFrame

\* the boards and windows quiesce is called with; a board holds a piece
QBoards ==
    { b \in [at : [QSquares -> QPieces], turn : BOOLEAN, move_stack : {<< >>}] :
        \E sq \in QSquares : b.at[sq] # Empty }
QWindows == {<< -Inf, Inf >>, << -1, 1 >>, << 0, 5 >>}
QuiesceCalls ==
    { [fn |-> "quiesce", done |-> FALSE, returning |-> FALSE, ret |-> 0,
       board |-> b, frames |-> << QFrame(w[1], w[2], b) >>,
       pieces |-> PieceCount(b), deepest |-> 0, returns |-> 0,
       pushed |-> [prio |-> -1, best |-> -1, victim |-> Empty],
       last |-> [value |-> 0, alpha |-> 0, beta |-> 0, explored |-> 0,
                 captures |-> 0, entry |-> b, board |-> b]] :
      b \in QBoards, w \in QWindows }

InitQuiesce ==
    /\ SearchIdle /\ TableIdle9
    /\ engine = EngineIdle /\ uci = UciIdle
    /\ linear = NoLinear
    /\ call \in QuiesceCalls

NextQuiesce ==
    \/ QuiesceEnter
    \/ QuiesceResume

\* the thread that runs quiesce goes on running
SpecQuiesce == InitQuiesce /\ [][NextQuiesce]_vars /\ WF_vars(NextQuiesce)

\* what holds of the calls of quiesce made so far
QuiesceSteps ==
    call.fn = "quiesce" =>
        \* the move pushed last is a capture, of the highest priority
        /\ call.deepest > 0 =>
              /\ call.pushed.victim # Empty
              /\ call.pushed.prio = call.pushed.best
        \* every board on the way came about by captures
        /\ \A i \in 1 .. Len(call.board.move_stack) :
              call.board.move_stack[i].captured # Empty
        \* a call explores at most one capture
        /\ \A i \in 1 .. Len(call.frames) : call.frames[i].explored <= 1
        \* a call that returned without a capture to explore did not recurse
        \* and returned its alpha, raised to the value of the position
        /\ (call.returns > 0 /\ call.last.captures = 0) =>
              /\ call.last.explored = 0
              /\ LET static == Material(call.last.entry, 1)
                                  * (IF call.last.entry.turn THEN 1 ELSE -1)
                 IN  call.last.value =
                        IF static > call.last.beta THEN call.last.beta
                        ELSE Max(call.last.alpha, static)
        \* the recursion is less deep than the board has pieces
        /\ call.deepest < call.pieces
        /\ Len(call.frames) <= call.pieces

InitPosition == Init \/ InitQuiesce

\* the thread searches, or quiesce is called on a board of its own
NextPosition ==
    \/ UnitIdle /\ Next
    \/ NextQuiesce

SpecPosition == InitPosition /\ [][NextPosition]_vars

\* the position thread t's board is in: where the last move on its move
\* stack leads
PositionOf(t) ==
    IF moveStack[t] = << >> THEN root[t]
    ELSE moveStack[t][Len(moveStack[t])].to

\* a step in which the negamax call on top of the stack got a value back
\* from the call it made
ChildReturned(t) ==
    /\ Call(t)
    /\ pc'[t] = "search"
    /\ Len(stack'[t]) = Len(stack[t])

\* a step in which a call of quiesce returns
QuiesceReturned ==
    /\ call.fn = "quiesce"
    /\ call'.returns > call.returns

\* C29: when a call of negamax or quiesce returns a value, the board is as
\* it was when the call was entered: the move stack has the length it had
\* and the position is the one the call was made on.
C29_PositionRestored ==
    [][/\ \A t \in Threads :
            /\ Finish(t) =>
                  LET fr == stack[t][Len(stack[t])]
                  IN  /\ Len(moveStack[t]) = fr.ply
                      /\ PositionOf(t) = fr.pos
            /\ ChildReturned(t) => moveStack'[t] = moveStack[t]
       /\ QuiesceReturned => call'.last.board = call'.last.entry]_vars

\* the negamax call on the root has returned from a search of depth 2
\* that went through its moves after the stop event was set, and the move
\* stack is empty again
C29_Witness ==
    /\ pc[1] = "ab_ret"
    /\ lastRet[1].path = "explore" /\ lastRet[1].depth = 2
    /\ stopEvent[1]
    /\ visits[1].calls >= 3
    /\ moveStack[1] = << >>

(***************************************************************************)
(* The clock over a sequence of perform_search calls (specification        *)
(* SpecTM).                                                                *)
(***************************************************************************)
\* C30: over any sequence of perform_search calls on a clock with a
\* base_time of at least 0, increments of at least 0 and at least one move
\* to go, the base_time is never negative, and the time a call allocates
\* is at least 0 and at most half of the time the clock held before the
\* call.
C30_ClockNeverNegative ==
    /\ [](mgr.time_control.base_time >= 0)
    /\ [][SearchBegins =>
             /\ mgr'.allocated >= 0
             /\ Scale * mgr'.allocated <= mgr.time_control.base_time]_vars

\* the second perform_search on a clock of 4000 ms with one move to go
\* has allocated 1.999 s, the half of the 3998 ms the first call left
C30_Witness ==
    /\ nSearches = 2 /\ mgr.pc = "start"
    /\ mgr.moves_to_go = 1
    /\ mgr.allocated = 3998
    /\ mgr.time_control.base_time = 7992002

(***************************************************************************)
(* The bestmove lines of the UCI driver (specification SpecUCI).           *)
(***************************************************************************)
\* C28: for each go command the driver prints exactly one bestmove line
\* once the search is done, and no further bestmove line while it waits
\* for the next command.
C28_OneBestmove ==
    uci.bestmoves <= 1

(***************************************************************************)
(* The order of the stored move lists (specification Spec).                *)
(***************************************************************************)
\* the negamax call on the root of an iteration of depth 2 or more calls
\* negamax for the first move of its list
RootExploresFirst(t) ==
    /\ Call(t)
    /\ Len(stack[t]) = 1
    /\ stack[t][1].idx = 1
    /\ currentDepth[t] >= 2

\* the move iterative_deepening yielded last, and the depth it did so at
LastYield(t) == yields[t][Len(yields[t])]

\* the entry of the last child exploration that was stored: its first move
\* has the stored score as its value
StoredFirstHasScore(t) ==
    (lastStore[t] # NoStore /\ lastStore[t].path = "explore") =>
        lastStore[t].entry.moves[1].assigned_value = lastStore[t].entry.score

\* C27: in every iteration of depth d >= 2 whose root call explores its
\* moves, the first move explored is the move yielded at depth d - 1; and
\* after a child exploration that was stored, with or without a cutoff and
\* with a new or a reused list, the first move of the stored list is the
\* move whose value is the stored score.
C27_BestMoveFirst ==
    /\ [][\A t \in Threads :
            RootExploresFirst(t) =>
               /\ yields[t] # << >>
               /\ LastYield(t).depth = currentDepth[t] - 1
               /\ ActionsOf(stack[t][1])[1].move = LastYield(t).move]_vars
    /\ [](\A t \in Threads : StoredFirstHasScore(t))

=============================================================================
